---- MODULE Spec2Model ----
(***************************************************************************)
(* S&P 500 moving-average monitor: indicator computation                   *)
(* (src/src/indicators.py), signal generation and aggregation              *)
(* (src/src/signal_generator.py) and the monitoring script's signal checks *)
(* (src/main.py).                                                          *)
(*                                                                         *)
(* Numbers.  A pandas cell is a float64 or NaN.  A cell is modelled as a   *)
(* record [nan, n, d, sg, q, u] standing for                               *)
(*        (n + sg * sqrt(q)) / d  +  u * 2^-46                             *)
(* with d > 0: exact rationals (sg = 0, q = 0, u = 0) for prices, means    *)
(* and exponential averages, one square root for a Bollinger band          *)
(* (mean +/- k * sample standard deviation), and a last-place offset u for *)
(* the one place where float64 rounding is visible (the RSI computed with  *)
(* a zero average loss replaced by machine epsilon).  Every comparison     *)
(* with NaN is false, as in IEEE-754.                                      *)
(***************************************************************************)
EXTENDS Integers, Sequences, FiniteSets, TLC

VARIABLES
    config,      \* configuration handed to TechnicalIndicators / SignalGenerator
    constructed, \* TechnicalIndicators(config) and SignalGenerator(config) exist
    data,        \* the caller's price frame (None, or a sequence of bars)
    ind,         \* frame returned by calculate_all (None, or a sequence of rows)
    result,      \* first value returned by generate_signals
    signals,     \* second value returned by generate_signals
    latest,      \* dictionary returned by get_latest_signals
    lookbackArg, \* the lookback argument of the last get_latest_signals call
    mdf,         \* the monitoring script's frame (main.py), None or rows
    cross,       \* value returned by check_cross_signals
    allsig,      \* value returned by check_all_signals
    raised,      \* exception that escaped the last call ("none" if none)
    status,      \* dictionary returned by analyze_market_status
    previous,    \* what the preceding evaluation of the pipeline returned
    fault,       \* the rule evaluation that raised inside generate_signals
    fetch,       \* the locals and the call log of one get_sp500_data call
    run,         \* the weekday and the call log of one run of main()
    pc           \* position of the driver

vars == <<config, constructed, data, ind, result, signals, latest, lookbackArg,
          mdf, cross, allsig, raised, status, previous, fault, fetch, run,
          pc>>

(***************************************************************************)
(* Bounds of the model.                                                    *)
(***************************************************************************)
MaxBars == 5
MaxPrice == 3
MaxRows == 3
MaxMonitorRows == 3
MaxLookback == 3
MaxAnalyzerRows == 2
MaxRuns == 2
MaxRetries == 3

\* Python's None, and a present value
None == [none |-> TRUE]
Some(x) == [none |-> FALSE, v |-> x]

(***************************************************************************)
(* Arithmetic on cells.                                                    *)
(***************************************************************************)
NaN == [nan |-> TRUE, n |-> 0, d |-> 1, sg |-> 0, q |-> 0, u |-> 0]

Abs(i) == IF i < 0 THEN -i ELSE i

Sign(i) == IF i > 0 THEN 1 ELSE IF i < 0 THEN -1 ELSE 0

RECURSIVE Gcd(_, _)
Gcd(a, b) == IF b = 0 THEN a ELSE Gcd(b, a % b)

Lcm(a, b) == (a \div Gcd(a, b)) * b

\* the rational n/d in lowest terms, d > 0
Rat(n, d) ==
    LET g == Gcd(Abs(n), Abs(d))
        s == IF d < 0 THEN -1 ELSE 1
    IN  [nan |-> FALSE, n |-> (s * n) \div g, d |-> (s * d) \div g,
         sg |-> 0, q |-> 0, u |-> 0]

Num(i) == Rat(i, 1)

Add(a, b) ==
    IF a.nan \/ b.nan THEN NaN
    ELSE LET l == Lcm(a.d, b.d)
         IN  Rat(a.n * (l \div a.d) + b.n * (l \div b.d), l)

Sub(a, b) ==
    IF a.nan \/ b.nan THEN NaN
    ELSE LET l == Lcm(a.d, b.d)
         IN  Rat(a.n * (l \div a.d) - b.n * (l \div b.d), l)

Mul(a, b) ==
    IF a.nan \/ b.nan THEN NaN
    ELSE Rat(a.n * b.n, a.d * b.d)

\* sign of L - s * sqrt(R2), for integers L, R2 >= 0 and s in {-1, 0, 1}
SignSurd(L, s, R2) ==
    IF s = 0 \/ R2 = 0 THEN Sign(L)
    ELSE IF s = 1
         THEN (IF L <= 0 THEN -1 ELSE Sign(L * L - R2))
         ELSE (IF L >= 0 THEN 1 ELSE Sign(R2 - L * L))

\* sign of a - b for defined a, b of which at most one carries a square root
Cmp(a, b) ==
    LET l  == Lcm(a.d, b.d)
        fa == l \div a.d
        fb == l \div b.d
        L  == a.n * fa - b.n * fb
        s  == IF b.sg # 0
              THEN SignSurd(L, b.sg, fb * fb * b.q)
              ELSE -SignSurd(-L, a.sg, fa * fa * a.q)
    IN  IF s # 0 THEN s ELSE Sign(a.u - b.u)

Gt(a, b) == ~a.nan /\ ~b.nan /\ Cmp(a, b) > 0
Lt(a, b) == ~a.nan /\ ~b.nan /\ Cmp(a, b) < 0
Ge(a, b) == ~a.nan /\ ~b.nan /\ Cmp(a, b) >= 0
Le(a, b) == ~a.nan /\ ~b.nan /\ Cmp(a, b) <= 0

(***************************************************************************)
(* pandas primitives used by the indicator code, on sequences of cells     *)
(* (index 1 is the oldest bar).                                            *)
(***************************************************************************)
RECURSIVE SumWindow(_, _, _)
\* s[lo] + ... + s[hi]; NaN as soon as one operand is NaN
SumWindow(s, lo, hi) ==
    IF lo > hi THEN Num(0) ELSE Add(s[hi], SumWindow(s, lo, hi - 1))

\* variant: rolling(window=w, min_periods=1), the mean of the bars seen so far
\* while fewer than w exist
RollingMeanMinPeriods1(s, w) ==
    [i \in 1..Len(s) |->
        IF i < w THEN Mul(SumWindow(s, 1, i), Rat(1, i))
        ELSE Mul(SumWindow(s, i - w + 1, i), Rat(1, w))]

\* Series.rolling(window=w).mean(): min_periods = w, so the value is NaN
\* until w observations are in the window and whenever one of them is NaN
RollingMean(s, w) ==
    [i \in 1..Len(s) |->
        IF i < w THEN NaN ELSE Mul(SumWindow(s, i - w + 1, i), Rat(1, w))]

RECURSIVE SumSqDev(_, _, _, _, _)
\* sum over j in lo..hi of (w * s[j] - S)^2, for integer-valued cells
SumSqDev(s, lo, hi, w, S) ==
    IF lo > hi THEN 0
    ELSE (w * s[hi].n - S) * (w * s[hi].n - S) + SumSqDev(s, lo, hi - 1, w, S)

\* variant: the population standard deviation (ddof = 0),
\* sqrt(sum (x - mean)^2 / w) = sqrt(w * sum (w*x - S)^2) / (w*w)
RollingStdPopulation(s, w) ==
    [i \in 1..Len(s) |->
        IF i < w THEN NaN
        ELSE LET S == SumWindow(s, i - w + 1, i)
             IN  IF S.nan THEN NaN
                 ELSE LET Q == w * SumSqDev(s, i - w + 1, i, w, S.n)
                      IN  IF Q = 0 THEN Num(0)
                          ELSE [nan |-> FALSE, n |-> 0, d |-> w * w,
                                sg |-> 1, q |-> Q, u |-> 0]]

\* Series.rolling(window=w).std(): sample standard deviation (ddof = 1) of
\* the trailing window, sqrt(sum (x - mean)^2 / (w - 1)); NaN for w = 1.
\* With S the window sum this is sqrt((w - 1) * sum (w*x - S)^2) / (w*(w - 1)).
\* The closes it is applied to are whole numbers (d = 1).
RollingStd(s, w) ==
    [i \in 1..Len(s) |->
        IF i < w \/ w < 2 THEN NaN
        ELSE LET S == SumWindow(s, i - w + 1, i)
             IN  IF S.nan THEN NaN
                 ELSE LET Q == (w - 1) * SumSqDev(s, i - w + 1, i, w, S.n)
                      IN  IF Q = 0 THEN Num(0)
                          ELSE [nan |-> FALSE, n |-> 0, d |-> w * (w - 1),
                                sg |-> 1, q |-> Q, u |-> 0]]

\* mid + sgn * (std * k) for a rational mid, a standard deviation std as
\* produced by RollingStd and a whole multiplier k >= 0
Band(mid, std, k, sgn) ==
    IF mid.nan \/ std.nan THEN NaN
    ELSE IF std.q = 0 \/ k = 0 THEN mid
    ELSE LET l  == Lcm(mid.d, std.d)
             fm == l \div mid.d
             fs == l \div std.d
         IN  [nan |-> FALSE, n |-> mid.n * fm, d |-> l,
              sg |-> sgn, q |-> k * k * fs * fs * std.q, u |-> 0]

\* Series.diff(): NaN at the first index
Diff(s) ==
    [i \in 1..Len(s) |-> IF i = 1 THEN NaN ELSE Sub(s[i], s[i - 1])]

RECURSIVE EwmAt(_, _, _)
\* Series.ewm(span=span, adjust=False).mean() at index i:
\* y[1] = x[1], y[i] = (1 - a) * y[i-1] + a * x[i] with a = 2 / (span + 1)
EwmAt(s, span, i) ==
    IF i = 1 THEN s[1]
    ELSE Add(Mul(Rat(span - 1, span + 1), EwmAt(s, span, i - 1)),
             Mul(Rat(2, span + 1), s[i]))

\* variant: ewm(com=span), whose smoothing factor is 1 / (1 + span)
EwmCom(s, span) == [i \in 1..Len(s) |-> EwmAt(s, 2 * span + 1, i)]

Ewm(s, span) == [i \in 1..Len(s) |-> EwmAt(s, span, i)]

Column(frame, c) == [i \in 1..Len(frame) |-> frame[i][c]]

(***************************************************************************)
(* TechnicalIndicators (src/src/indicators.py).                            *)
(***************************************************************************)
\* gain = (delta.where(delta > 0, 0)).fillna(0)
Gain(delta) ==
    [i \in 1..Len(delta) |-> IF Gt(delta[i], Num(0)) THEN delta[i] ELSE Num(0)]

\* loss = (-delta.where(delta < 0, 0)).fillna(0)
Loss(delta) ==
    [i \in 1..Len(delta) |->
        IF Lt(delta[i], Num(0)) THEN Sub(Num(0), delta[i]) ELSE Num(0)]

\* np.finfo(float).eps is 2^-52 and the float64 values just below 100 are
\* 2^-46 apart: one such step is 64 eps
EpsPerUlp == 64

\* variant: 100 - (100 / 1 + rs), i.e. -rs
RsiValueNoParentheses(ag, al) ==
    IF ag.nan \/ al.nan THEN NaN
    ELSE IF al.n # 0 THEN Rat(-(ag.n * al.d), ag.d * al.n)
    ELSE Rat(-(ag.n * EpsPerUlp), ag.d)

\* 100 - 100 / (1 + rs) for rs = ag / al, where a zero al has been replaced
\* by eps (avg_loss.replace(0, np.finfo(float).eps)).
\*   al > 0:          100 * ag / (ag + al), exactly
\*   al = 0, ag = 0:  rs = 0 / eps = 0, so 100 - 100 / 1 = 0
\*   al = 0, ag > 0:  rs = ag * 2^52, and float64 evaluates
\*                    100 - 100 / (1 + rs) to 100 - m * 2^-46 with m the
\*                    nearest whole number to 100 / (64 * ag) (m = 0, i.e.
\*                    exactly 100, once ag exceeds 100 / 32)
RsiValue(ag, al) ==
    IF ag.nan \/ al.nan THEN NaN
    ELSE IF al.n # 0 THEN Mul(Num(100), Rat(ag.n * al.d, ag.n * al.d + al.n * ag.d))
    ELSE IF ag.n = 0 THEN Num(0)
    ELSE LET den == 2 * EpsPerUlp * ag.n
             num == 2 * 100 * ag.d + EpsPerUlp * ag.n
             m   == IF num % den = 0 THEN (num \div den) - 1 ELSE num \div den
         IN  [nan |-> FALSE, n |-> 100, d |-> 1, sg |-> 0, q |-> 0, u |-> -m]

\* the RSI column of calculate_rsi for one period
RsiSeries(close, period) ==
    LET delta == Diff(close)
        ag    == RollingMean(Gain(delta), period)
        al    == RollingMean(Loss(delta), period)
    IN  [i \in 1..Len(close) |-> RsiValue(ag[i], al[i])]

AvgGain(close, period) == RollingMean(Gain(Diff(close)), period)
AvgLoss(close, period) == RollingMean(Loss(Diff(close)), period)

\* calculate_moving_averages, calculate_rsi, calculate_macd and
\* calculate_bollinger_bands each return a copy of the frame with their
\* columns added.  MA{short} and MA{long} (RSI{short} and RSI{long}) are one
\* column when the two periods are equal; both assignments then write the
\* same values, so two fields model them.
calculate_moving_averages(cfg, df) ==
    LET close == Column(df, "Close")
        mas   == RollingMean(close, cfg.ma_short)
        mal   == RollingMean(close, cfg.ma_long)
    IN  [i \in 1..Len(df) |->
            [df[i] EXCEPT !.MA_short = mas[i], !.MA_long = mal[i]]]

calculate_rsi(cfg, df) ==
    LET close == Column(df, "Close")
        rs    == RsiSeries(close, cfg.rsi_short)
        rl    == RsiSeries(close, cfg.rsi_long)
    IN  [i \in 1..Len(df) |->
            [df[i] EXCEPT !.RSI_short = rs[i], !.RSI_long = rl[i]]]

\* variant: the signal line smooths the close instead of the MACD line
calculate_macd_signal_of_close(cfg, df) ==
    LET close == Column(df, "Close")
        fast  == Ewm(close, cfg.macd_fast)
        slow  == Ewm(close, cfg.macd_slow)
        macd  == [i \in 1..Len(df) |-> Sub(fast[i], slow[i])]
        sig   == Ewm(close, cfg.macd_signal)
    IN  [i \in 1..Len(df) |->
            [df[i] EXCEPT !.EMA_fast = fast[i], !.EMA_slow = slow[i],
                          !.MACD = macd[i], !.MACD_Signal = sig[i],
                          !.MACD_Histogram = Sub(macd[i], sig[i])]]

calculate_macd(cfg, df) ==
    LET close == Column(df, "Close")
        fast  == Ewm(close, cfg.macd_fast)
        slow  == Ewm(close, cfg.macd_slow)
        macd  == [i \in 1..Len(df) |-> Sub(fast[i], slow[i])]
        sig   == Ewm(macd, cfg.macd_signal)
    IN  [i \in 1..Len(df) |->
            [df[i] EXCEPT !.EMA_fast = fast[i], !.EMA_slow = slow[i],
                          !.MACD = macd[i], !.MACD_Signal = sig[i],
                          !.MACD_Histogram = Sub(macd[i], sig[i])]]

calculate_bollinger_bands(cfg, df) ==
    LET close == Column(df, "Close")
        mid   == RollingMean(close, cfg.bb_period)
        std   == RollingStd(close, cfg.bb_period)
    IN  [i \in 1..Len(df) |->
            [df[i] EXCEPT !.BB_Middle = mid[i], !.BB_Std = std[i],
                          !.BB_Upper = Band(mid[i], std[i], cfg.bb_std_dev, 1),
                          !.BB_Lower = Band(mid[i], std[i], cfg.bb_std_dev, -1)]]

\* a bar of the input frame widened by the (not yet computed) indicator
\* columns; Volume stands for the OHLCV columns the code carries along
\* without reading them
Widen(bar) ==
    [Date |-> bar.Date, Close |-> bar.Close, Volume |-> bar.Volume,
     MA_short |-> NaN, MA_long |-> NaN, RSI_short |-> NaN, RSI_long |-> NaN,
     EMA_fast |-> NaN, EMA_slow |-> NaN, MACD |-> NaN, MACD_Signal |-> NaN,
     MACD_Histogram |-> NaN, BB_Middle |-> NaN, BB_Std |-> NaN,
     BB_Upper |-> NaN, BB_Lower |-> NaN]

\* data is None or data.empty
IsEmptyFrame(f) == f = None \/ f.v = <<>>

\* calculate_all: None for missing or empty data, else the four
\* calculations applied in turn to a copy
calculate_all(cfg, d) ==
    IF IsEmptyFrame(d) THEN None
    ELSE Some(calculate_bollinger_bands(cfg,
                calculate_macd(cfg,
                    calculate_rsi(cfg,
                        calculate_moving_averages(cfg,
                            [i \in 1..Len(d.v) |-> Widen(d.v[i])])))))

(***************************************************************************)
(* SignalGenerator (src/src/signal_generator.py).                          *)
(***************************************************************************)
IndicatorColumns ==
    {"Close", "Volume", "MA_short", "MA_long", "RSI_short", "RSI_long",
     "EMA_fast", "EMA_slow", "MACD", "MACD_Signal", "MACD_Histogram",
     "BB_Middle", "BB_Std", "BB_Upper", "BB_Lower"}

HasNaN(row) == \E c \in IndicatorColumns : row[c].nan

\* variant: the frame is used as it is, NaN rows included
KeepAllRows(f) == f

\* DataFrame.dropna(): the rows without any NaN, in their order
DropNa(f) == SelectSeq(f, LAMBDA row : ~HasNaN(row))

\* variant: strictly below on the previous row
CrossOverStrict(df, A, B, i) ==
    /\ Gt(df[i][A], df[i][B])
    /\ i > 1
    /\ Lt(df[i - 1][A], df[i - 1][B])

\* (A > B) & (A.shift(1) <= B.shift(1)) at row i of df; shift(1) is NaN at
\* the first row
CrossOver(df, A, B, i) ==
    /\ Gt(df[i][A], df[i][B])
    /\ i > 1
    /\ Le(df[i - 1][A], df[i - 1][B])

\* (A < B) & (A.shift(1) >= B.shift(1)) at row i of df
CrossUnder(df, A, B, i) ==
    /\ Lt(df[i][A], df[i][B])
    /\ i > 1
    /\ Ge(df[i - 1][A], df[i - 1][B])

\* signals.loc[ma_crossover] = 1, then signals.loc[ma_crossunder] = -1
MASignal(df, i) ==
    IF CrossUnder(df, "MA_short", "MA_long", i) THEN -1
    ELSE IF CrossOver(df, "MA_short", "MA_long", i) THEN 1
    ELSE 0

\* variant: strictly beyond the threshold on the previous row
RSISignalStrict(cfg, df, i) ==
    IF /\ Lt(df[i].RSI_short, Num(cfg.rsi_overbought))
       /\ i > 1
       /\ Gt(df[i - 1].RSI_short, Num(cfg.rsi_overbought))
    THEN -1
    ELSE IF /\ Gt(df[i].RSI_short, Num(cfg.rsi_oversold))
            /\ i > 1
            /\ Lt(df[i - 1].RSI_short, Num(cfg.rsi_oversold))
    THEN 1
    ELSE 0

\* RSI against the constant thresholds; the overbought assignment comes last
RSISignal(cfg, df, i) ==
    IF /\ Lt(df[i].RSI_short, Num(cfg.rsi_overbought))
       /\ i > 1
       /\ Ge(df[i - 1].RSI_short, Num(cfg.rsi_overbought))
    THEN -1
    ELSE IF /\ Gt(df[i].RSI_short, Num(cfg.rsi_oversold))
            /\ i > 1
            /\ Le(df[i - 1].RSI_short, Num(cfg.rsi_oversold))
    THEN 1
    ELSE 0

MACDSignal(df, i) ==
    IF CrossUnder(df, "MACD", "MACD_Signal", i) THEN -1
    ELSE IF CrossOver(df, "MACD", "MACD_Signal", i) THEN 1
    ELSE 0

\* the loop over range(1, len(df)): the lower-band test, then the
\* upper-band test, whose assignment overwrites the first
BBSignal(df, i) ==
    IF i = 1 THEN 0
    ELSE IF /\ Ge(df[i - 1].Close, df[i - 1].BB_Upper)
            /\ Lt(df[i].Close, df[i].BB_Upper)
    THEN -1
    ELSE IF /\ Le(df[i - 1].Close, df[i - 1].BB_Lower)
            /\ Gt(df[i].Close, df[i].BB_Lower)
    THEN 1
    ELSE 0

\* the loop over range(1, len(df)): price above the long average, then
\* price below it
PriceMARelation(df, i) ==
    IF i = 1 THEN 0
    ELSE IF /\ Lt(df[i].Close, df[i].MA_long)
            /\ Ge(df[i - 1].Close, df[i - 1].MA_long)
    THEN -1
    ELSE IF /\ Gt(df[i].Close, df[i].MA_long)
            /\ Le(df[i - 1].Close, df[i - 1].MA_long)
    THEN 1
    ELSE 0

signal_columns ==
    {"MA_Signal", "RSI_Signal", "MACD_Signal", "BB_Signal", "Price_MA_Relation"}

\* variant: counts the votes that are not negative
TotalBuyNonNegative(v) == Cardinality({c \in signal_columns : v[c] >= 0})

\* signals[signal_columns].apply(lambda x: (x > 0).sum(), axis=1)
TotalBuy(v) == Cardinality({c \in signal_columns : v[c] > 0})

\* signals[signal_columns].apply(lambda x: (x < 0).sum(), axis=1)
TotalSell(v) == Cardinality({c \in signal_columns : v[c] < 0})

\* variant: a single buy vote confirms a Buy
BuyFlagAnyVote(total, min_confirm) == IF total >= 1 THEN 1 ELSE 0

\* (signals['Total_Buy_Signals'] >= self.min_confirm).astype(int)
BuyFlag(total, min_confirm) == IF total >= min_confirm THEN 1 ELSE 0

\* (signals['Total_Sell_Signals'] >= self.min_confirm).astype(int)
SellFlag(total, min_confirm) == IF total >= min_confirm THEN 1 ELSE 0

Votes(cfg, df, i) ==
    [MA_Signal         |-> MASignal(df, i),
     RSI_Signal        |-> RSISignal(cfg, df, i),
     MACD_Signal       |-> MACDSignal(df, i),
     BB_Signal         |-> BBSignal(df, i),
     Price_MA_Relation |-> PriceMARelation(df, i)]

\* variant: a confirmed Buy takes priority over a Sell on the same date
SignalRowBuyFirst(cfg, df, i) ==
    LET v == Votes(cfg, df, i)
        b == BuyFlag(TotalBuy(v), cfg.min_confirm)
    IN  [Date               |-> df[i].Date,
         Price              |-> df[i].Close,
         MA_Signal          |-> v.MA_Signal,
         RSI_Signal         |-> v.RSI_Signal,
         MACD_Signal        |-> v.MACD_Signal,
         BB_Signal          |-> v.BB_Signal,
         Price_MA_Relation  |-> v.Price_MA_Relation,
         Total_Buy_Signals  |-> TotalBuy(v),
         Total_Sell_Signals |-> TotalSell(v),
         Buy_Signal         |-> b,
         Sell_Signal        |-> IF b = 1 THEN 0
                                ELSE SellFlag(TotalSell(v), cfg.min_confirm)]

\* one row of the signals frame
SignalRow(cfg, df, i) ==
    LET v == Votes(cfg, df, i)
    IN  [Date               |-> df[i].Date,
         Price              |-> df[i].Close,
         MA_Signal          |-> v.MA_Signal,
         RSI_Signal         |-> v.RSI_Signal,
         MACD_Signal        |-> v.MACD_Signal,
         BB_Signal          |-> v.BB_Signal,
         Price_MA_Relation  |-> v.Price_MA_Relation,
         Total_Buy_Signals  |-> TotalBuy(v),
         Total_Sell_Signals |-> TotalSell(v),
         Buy_Signal         |-> BuyFlag(TotalBuy(v), cfg.min_confirm),
         Sell_Signal        |-> SellFlag(TotalSell(v), cfg.min_confirm)]

SignalsFrame(cfg, df) == [i \in 1..Len(df) |-> SignalRow(cfg, df, i)]

\* pd.concat([df, signals[[the five rule columns, Buy_Signal, Sell_Signal]]],
\* axis=1): each row of df next to its signal columns (the frame then has two
\* columns labelled MACD_Signal, the indicator under "row" and the vote)
ResultFrame(df, sg) ==
    [i \in 1..Len(df) |->
        [row               |-> df[i],
         MA_Signal         |-> sg[i].MA_Signal,
         RSI_Signal        |-> sg[i].RSI_Signal,
         MACD_Signal       |-> sg[i].MACD_Signal,
         BB_Signal         |-> sg[i].BB_Signal,
         Price_MA_Relation |-> sg[i].Price_MA_Relation,
         Buy_Signal        |-> sg[i].Buy_Signal,
         Sell_Signal       |-> sg[i].Sell_Signal]]

\* generate_signals: (None, None) for missing or empty data, else
\* (result, signals) computed on the NaN-free copy of the data
generate_signals(cfg, d) ==
    IF IsEmptyFrame(d) THEN <<None, None>>
    ELSE LET df == DropNa(d.v)
             sg == SignalsFrame(cfg, df)
         IN  <<Some(ResultFrame(df, sg)), Some(sg)>>

\* A fault f = Some([rule, at]) stands for a cell of row `at` of the NaN-free
\* frame that makes the comparisons of one of the two loops raise (a value
\* that is not a number in BB_Lower, say).  The loop runs over rows 2, 3, ...
\* and raises when it first touches that row; the except clause of its
\* try block then assigns 0 to the rule's whole column.
FaultHits(f, df) ==
    IF f = None THEN FALSE ELSE Len(df) >= 2 /\ f.v.at <= Len(df)

\* the totals and the flags of a row are computed from its rule columns
\* after the except clause: one row of the signals frame when the loop of
\* rule f.v.rule has raised
Recounted(cfg, r) ==
    [r EXCEPT !.Total_Buy_Signals  = TotalBuy(r),
              !.Total_Sell_Signals = TotalSell(r),
              !.Buy_Signal         = BuyFlag(TotalBuy(r), cfg.min_confirm),
              !.Sell_Signal        = SellFlag(TotalSell(r), cfg.min_confirm)]

SignalRowCaught(cfg, r, f, hit) ==
    IF hit THEN Recounted(cfg, [r EXCEPT ![f.v.rule] = 0]) ELSE r

\* the signals frame of a call during which fault f occurs
SignalsFrameWithFault(cfg, df, f) ==
    [i \in 1..Len(df) |->
        SignalRowCaught(cfg, SignalRow(cfg, df, i), f, FaultHits(f, df))]

\* return result, signals
Returned(df, sg) == <<Some(ResultFrame(df, sg)), Some(sg)>>

\* generate_signals when fault f occurs during the call
generate_signals_with_fault(cfg, d, f) ==
    IF IsEmptyFrame(d) THEN <<None, None>>
    ELSE Returned(DropNa(d.v), SignalsFrameWithFault(cfg, DropNa(d.v), f))

\* variant: the first n rows
HeadRows(f, n) ==
    IF n >= Len(f) THEN f ELSE SubSeq(f, 1, n)

\* DataFrame.tail(n) for n >= 0: the last n rows (all of them if n >= len)
TailRows(f, n) ==
    IF n >= Len(f) THEN f ELSE SubSeq(f, Len(f) - n + 1, Len(f))

\* buy_date.strftime('%Y-%m-%d')
Strftime(date) == [ymd |-> date]

\* the dictionary built from the last row of rows, None if there is none
LatestEntry(rows, total) ==
    IF rows = <<>> THEN None
    ELSE LET r == rows[Len(rows)]
         IN  [date            |-> Strftime(r.Date),
              price           |-> r.Price,
              ma_signal       |-> r.MA_Signal,
              rsi_signal      |-> r.RSI_Signal,
              macd_signal     |-> r.MACD_Signal,
              bb_signal       |-> r.BB_Signal,
              price_ma_signal |-> r.Price_MA_Relation,
              total_signals   |-> r[total]]

\* get_latest_signals(signals, lookback) for the rows sg of a signals frame
\* and a lookback that is None or Some(n), n >= 0
get_latest_signals(cfg, sg, lookback) ==
    LET lb     == IF lookback = None THEN cfg.lookback ELSE lookback.v
        recent == TailRows(sg, lb)
        buys   == SelectSeq(recent, LAMBDA r : r.Buy_Signal = 1)
        sells  == SelectSeq(recent, LAMBDA r : r.Sell_Signal = 1)
    IN  [latest_buy  |-> LatestEntry(buys, "Total_Buy_Signals"),
         latest_sell |-> LatestEntry(sells, "Total_Sell_Signals")]

(***************************************************************************)
(* MarketAnalyzer (src/src/analyzer.py).  The labels are the code's string *)
(* literals, written here in English.                                      *)
(***************************************************************************)
\* variant: a close on the long average counts as above it
TrendInclusive(price, ma_long) ==
    IF Ge(price, ma_long) THEN "Uptrend" ELSE "Downtrend"

\* if current_price > ma_long_value: trend = Uptrend, else Downtrend
Trend(price, ma_long) ==
    IF Gt(price, ma_long) THEN "Uptrend" ELSE "Downtrend"

\* variant: a value on a threshold counts as beyond it
StrengthInclusive(cfg, rsi) ==
    IF Ge(rsi, Num(cfg.rsi_overbought)) THEN "Overbought"
    ELSE IF Le(rsi, Num(cfg.rsi_oversold)) THEN "Oversold"
    ELSE IF Ge(rsi, Num(50)) THEN "Strong"
    ELSE "Weak"

\* the if / elif chain on rsi_value
Strength(cfg, rsi) ==
    IF Gt(rsi, Num(cfg.rsi_overbought)) THEN "Overbought"
    ELSE IF Lt(rsi, Num(cfg.rsi_oversold)) THEN "Oversold"
    ELSE IF Gt(rsi, Num(50)) THEN "Strong"
    ELSE "Weak"

\* variant: Bearish only when the MACD is below its signal line
MomentumNotBelow(macd, macd_signal) ==
    IF Lt(macd, macd_signal) THEN "Bearish" ELSE "Bullish"

\* if macd_value > macd_signal_value: momentum = Bullish, else Bearish
Momentum(macd, macd_signal) ==
    IF Gt(macd, macd_signal) THEN "Bullish" ELSE "Bearish"

\* analyze_market_status(data, signals): None for missing or empty data,
\* else the status dictionary of the last row; signals is not read
analyze_market_status(cfg, d, sg) ==
    IF IsEmptyFrame(d) THEN None
    ELSE LET l == d.v[Len(d.v)]
         IN  Some([date           |-> Strftime(l.Date),
                   price          |-> l.Close,
                   ma_short       |-> l.MA_short,
                   ma_long        |-> l.MA_long,
                   rsi            |-> l.RSI_short,
                   macd           |-> l.MACD,
                   macd_signal    |-> l.MACD_Signal,
                   macd_histogram |-> l.MACD_Histogram,
                   trend          |-> Trend(l.Close, l.MA_long),
                   strength       |-> Strength(cfg, l.RSI_short),
                   momentum       |-> Momentum(l.MACD, l.MACD_Signal)])

(***************************************************************************)
(* The monitoring script (src/main.py).  Its frame is the one built by     *)
(* get_sp500_data: a record [rows, vix], vix telling whether the VIX       *)
(* column was merged in.                                                   *)
(***************************************************************************)
LastDate(rows) == IF Len(rows) > 0 THEN Some(rows[Len(rows)].Date) ELSE None

\* check_cross_signals(df): (golden_cross, death_cross, date)
check_cross_signals(df) ==
    IF df = None \/ Len(df.v.rows) = 0
    THEN [golden_cross |-> FALSE, death_cross |-> FALSE, date |-> None]
    ELSE IF Len(df.v.rows) < 3
    THEN [golden_cross |-> FALSE, death_cross |-> FALSE,
          date |-> LastDate(df.v.rows)]
    ELSE LET rows      == df.v.rows
             today     == rows[Len(rows)]
             yesterday == rows[Len(rows) - 1]
         IN  [golden_cross |-> /\ Lt(yesterday.Close, yesterday.WMA45)
                               /\ Gt(today.Close, today.WMA45),
              death_cross  |-> /\ Gt(yesterday.Close, yesterday.WMA45)
                               /\ Lt(today.Close, today.WMA45),
              date         |-> Some(today.Date)]

\* the if / elif chain of one section of check_all_signals:
\* "Golden Cross" if A crosses above B, "Death Cross" if below, else absent
Absent == "absent"

\* variant: touching the other series counts as being on the far side of it
CrossKeyInclusive(y, t, A, B) ==
    IF Le(y[A], y[B]) /\ Ge(t[A], t[B]) THEN "Golden Cross"
    ELSE IF Ge(y[A], y[B]) /\ Le(t[A], t[B]) THEN "Death Cross"
    ELSE Absent

CrossKey(y, t, A, B) ==
    IF Lt(y[A], y[B]) /\ Gt(t[A], t[B]) THEN "Golden Cross"
    ELSE IF Gt(y[A], y[B]) /\ Lt(t[A], t[B]) THEN "Death Cross"
    ELSE Absent

\* variant: the bounce needs only one bar at or below the lower band
BollingerKeyTwoPoint(b, y, t) ==
    IF Lt(y.Close, y.BB_Upper) /\ Gt(t.Close, t.BB_Upper) THEN "Upper Breakout"
    ELSE IF Gt(y.Close, y.BB_Lower) /\ Lt(t.Close, t.BB_Lower)
    THEN "Lower Breakdown"
    ELSE IF Le(y.Close, y.BB_Lower) /\ Gt(t.Close, t.BB_Lower)
    THEN "Lower Bounce"
    ELSE Absent

\* the if / elif chain of the Bollinger section, on the rows of the day
\* before yesterday, yesterday and today
BollingerKey(b, y, t) ==
    IF Lt(y.Close, y.BB_Upper) /\ Gt(t.Close, t.BB_Upper) THEN "Upper Breakout"
    ELSE IF Gt(y.Close, y.BB_Lower) /\ Lt(t.Close, t.BB_Lower)
    THEN "Lower Breakdown"
    ELSE IF /\ Le(b.Close, b.BB_Lower)
            /\ Le(y.Close, y.BB_Lower)
            /\ Gt(t.Close, t.BB_Lower)
    THEN "Lower Bounce"
    ELSE Absent

RsiKey(y, t) ==
    IF Lt(y.RSI, Num(30)) /\ Gt(t.RSI, Num(30)) THEN "Rebound from Oversold"
    ELSE IF Gt(y.RSI, Num(70)) /\ Lt(t.RSI, Num(70))
    THEN "Pullback from Overbought"
    ELSE IF Lt(t.RSI, Num(20)) THEN "Extremely Oversold"
    ELSE IF Gt(t.RSI, Num(80)) THEN "Extremely Overbought"
    ELSE Absent

\* variant: the histogram conditions are tested before the line crosses
MacdChainHistogramFirst(y, t) ==
    IF Lt(y.MACD_Hist, Num(0)) /\ Gt(t.MACD_Hist, Num(0))
    THEN [macd |-> Absent, macd_hist |-> "Histogram Turns Positive"]
    ELSE IF Gt(y.MACD_Hist, Num(0)) /\ Lt(t.MACD_Hist, Num(0))
    THEN [macd |-> Absent, macd_hist |-> "Histogram Turns Negative"]
    ELSE IF Lt(y.MACD, y.MACD_Signal) /\ Gt(t.MACD, t.MACD_Signal)
    THEN [macd |-> "Golden Cross", macd_hist |-> Absent]
    ELSE IF Gt(y.MACD, y.MACD_Signal) /\ Lt(t.MACD, t.MACD_Signal)
    THEN [macd |-> "Death Cross", macd_hist |-> Absent]
    ELSE [macd |-> Absent, macd_hist |-> Absent]

\* the MACD chain sets 'macd' in its first two branches and 'macd_hist' in
\* the last two
MacdChain(y, t) ==
    IF Lt(y.MACD, y.MACD_Signal) /\ Gt(t.MACD, t.MACD_Signal)
    THEN [macd |-> "Golden Cross", macd_hist |-> Absent]
    ELSE IF Gt(y.MACD, y.MACD_Signal) /\ Lt(t.MACD, t.MACD_Signal)
    THEN [macd |-> "Death Cross", macd_hist |-> Absent]
    ELSE IF Lt(y.MACD_Hist, Num(0)) /\ Gt(t.MACD_Hist, Num(0))
    THEN [macd |-> Absent, macd_hist |-> "Histogram Turns Positive"]
    ELSE IF Gt(y.MACD_Hist, Num(0)) /\ Lt(t.MACD_Hist, Num(0))
    THEN [macd |-> Absent, macd_hist |-> "Histogram Turns Negative"]
    ELSE [macd |-> Absent, macd_hist |-> Absent]

\* 'VIX' in df.columns and not pd.isna(df['VIX'][today])
VixAvailable(hasVix, t) == hasVix /\ ~t.VIX.nan

\* variant: a VIX on a boundary counts as beyond it
VixKeyInclusive(hasVix, t) ==
    IF ~VixAvailable(hasVix, t) THEN Absent
    ELSE IF Ge(t.VIX, Num(30)) THEN "High Fear"
    ELSE IF Ge(t.VIX, Num(20)) THEN "Moderate Fear"
    ELSE IF Le(t.VIX, Num(12)) THEN "Excessive Optimism"
    ELSE Absent

VixKey(hasVix, t) ==
    IF ~VixAvailable(hasVix, t) THEN Absent
    ELSE IF Gt(t.VIX, Num(30)) THEN "High Fear"
    ELSE IF Gt(t.VIX, Num(20)) THEN "Moderate Fear"
    ELSE IF Lt(t.VIX, Num(12)) THEN "Excessive Optimism"
    ELSE Absent

\* (today - yesterday) / yesterday * 100 > 30, for yesterday > 0
VixSurgeKey(hasVix, y, t) ==
    IF /\ VixAvailable(hasVix, t)
       /\ Gt(y.VIX, Num(0))
       /\ Gt(Mul(Sub(t.VIX, y.VIX), Num(100)), Mul(Num(30), y.VIX))
    THEN "VIX Surge"
    ELSE Absent

NoSignals ==
    [k \in {"45WMA", "50_200MA", "price_50MA", "price_200MA", "bollinger",
            "rsi", "macd", "macd_hist", "vix", "vix_surge"} |-> Absent]

\* check_all_signals(df): (signals, date), or the exception it raises.
\* For df = None the guard `df is None or len(df) < 3` holds and the return
\* expression `df.index[-1] if len(df) > 0 else None` evaluates len(None).
check_all_signals(df) ==
    IF df = None
    THEN [raised |-> "TypeError", signals |-> NoSignals, date |-> None]
    ELSE IF Len(df.v.rows) < 3
    THEN [raised |-> "none", signals |-> NoSignals,
          date |-> LastDate(df.v.rows)]
    ELSE LET rows == df.v.rows
             t    == rows[Len(rows)]
             y    == rows[Len(rows) - 1]
             b    == rows[Len(rows) - 2]
             mc   == MacdChain(y, t)
         IN  [raised  |-> "none",
              signals |->
                 [NoSignals EXCEPT
                    !["45WMA"]       = CrossKey(y, t, "Close", "WMA45"),
                    !["50_200MA"]    = CrossKey(y, t, "MA50", "MA200"),
                    !["price_50MA"]  = CrossKey(y, t, "Close", "MA50"),
                    !["price_200MA"] = CrossKey(y, t, "Close", "MA200"),
                    !["bollinger"]   = BollingerKey(b, y, t),
                    !["rsi"]         = RsiKey(y, t),
                    !["macd"]        = mc.macd,
                    !["macd_hist"]   = mc.macd_hist,
                    !["vix"]         = VixKey(df.v.vix, t),
                    !["vix_surge"]   = VixSurgeKey(df.v.vix, y, t)],
              date |-> Some(t.Date)]

(***************************************************************************)
(* Inputs.                                                                 *)
(***************************************************************************)
\* the configuration dictionary (config['indicators'][...] and
\* config['signals'][...]), flattened
BaseConfig ==
    [ma_short |-> 2, ma_long |-> 3,
     rsi_short |-> 2, rsi_long |-> 3, rsi_oversold |-> 30, rsi_overbought |-> 70,
     macd_fast |-> 1, macd_slow |-> 2, macd_signal |-> 2,
     bb_period |-> 2, bb_std_dev |-> 2,
     min_confirm |-> 2, lookback |-> 2]

\* configurations of the indicator pipeline; the last two have a MACD fast
\* span that is not smaller than the slow span
Configs ==
    {BaseConfig,
     [BaseConfig EXCEPT !.rsi_short = 1, !.min_confirm = 1],
     [BaseConfig EXCEPT !.ma_short = 1, !.ma_long = 2, !.rsi_long = 2,
                        !.macd_slow = 4, !.min_confirm = 1],
     [BaseConfig EXCEPT !.bb_period = 1],
     [BaseConfig EXCEPT !.macd_fast = 2],
     [BaseConfig EXCEPT !.macd_fast = 2, !.macd_slow = 1]}

\* configurations of the signal generator on enumerated indicator frames
SignalConfigs ==
    {BaseConfig,
     [BaseConfig EXCEPT !.min_confirm = 3,
                        !.rsi_oversold = 25, !.rsi_overbought = 75]}

\* a daily bar; dates are the positions 1, 2, ... (unique and increasing)
Bar(i, close) == [Date |-> i, Close |-> Num(close), Volume |-> Num(1)]

Prices == 1..MaxPrice

\* below / equal / above
Rel == {-1, 0, 1}

\* rows of an indicator frame handed to generate_signals: a places the short
\* average against the long one, m the MACD against its signal line, c the
\* close against the long average and the Bollinger bands (the RSI follows
\* the close); gap names a column that is NaN in the row
RowKinds ==
    {k \in [a : Rel, m : Rel, c : Rel, gap : {"none"}] :
        k.a = k.m \/ (k.c = 0 /\ k.a * k.m = 0)}
    \cup {[a |-> 0, m |-> 0, c |-> 0, gap |-> g] : g \in {"MA_long", "Volume"}}

IndicatorRow(i, k) ==
    [Date |-> i, Close |-> Num(2 + k.c),
     Volume |-> IF k.gap = "Volume" THEN NaN ELSE Num(1),
     MA_short |-> Num(2 + k.a),
     MA_long |-> IF k.gap = "MA_long" THEN NaN ELSE Num(2),
     RSI_short |-> Num(50 + 25 * k.c), RSI_long |-> Num(50),
     EMA_fast |-> Num(k.m), EMA_slow |-> Num(0),
     MACD |-> Num(k.m), MACD_Signal |-> Num(0), MACD_Histogram |-> Num(k.m),
     BB_Middle |-> Num(2), BB_Std |-> Rat(1, 2),
     BB_Upper |-> Num(3), BB_Lower |-> Num(1)]

\* rows of the monitoring frame: c places the close against the averages
\* and the bands (the RSI follows the close), m the MACD against its signal
\* line
\* (the VIX follows it), w tells whether the 45-week average is defined;
\* vix = "m" lets the VIX follow m, any other value sets it: undefined, 0,
\* or a value on or next to a boundary of the VIX rules
VixLevels == {"nan", "0", "12", "13", "20", "30"}

MonitorKinds ==
    {k \in [c : Rel, m : Rel, w : BOOLEAN, vix : {"m"}] : k.w \/ k.m = 0}

\* the rows of the frames on which the VIX rules are examined: the VIX at
\* 10, 15 and 35 through m, the other rules varied through c, and the six
\* set levels
VixKinds ==
    {k \in MonitorKinds : k.w /\ (k.c = 0 \/ k.m = 0)}
    \cup {[c |-> 0, m |-> 0, w |-> TRUE, vix |-> v] : v \in VixLevels}

VixOf(k) ==
    CASE k.vix = "nan" -> NaN
      [] k.vix = "0"   -> Num(0)
      [] k.vix = "12"  -> Num(12)
      [] k.vix = "13"  -> Num(13)
      [] k.vix = "20"  -> Num(20)
      [] k.vix = "30"  -> Num(30)
      [] OTHER         -> IF k.m < 0 THEN Num(10)
                          ELSE IF k.m = 0 THEN Num(15) ELSE Num(35)

MonitorRow(i, k) ==
    [Date |-> i, Close |-> Num(2 + k.c),
     WMA45 |-> IF k.w THEN Num(2) ELSE NaN,
     MA50 |-> Num(2), MA200 |-> Num(2),
     BB_Upper |-> Num(3), BB_Lower |-> Num(1),
     RSI |-> Num(50 + 35 * k.c),
     MACD |-> Num(k.m), MACD_Signal |-> Num(0), MACD_Hist |-> Num(k.m),
     VIX |-> VixOf(k)]

\* configurations of the analyzer; in the second one the two RSI thresholds
\* overlap, so a value can be above the one and below the other
AnalyzerConfigs ==
    {BaseConfig, [BaseConfig EXCEPT !.rsi_oversold = 70, !.rsi_overbought = 30]}

RsiLevels == {25, 30, 45, 50, 55, 70, 75}

\* rows of a frame handed to analyze_market_status: r is the RSI, t places
\* the close against the long average, m the MACD against its signal line,
\* gap names a column that is NaN in the row
AnalyzerKinds ==
    {[r |-> r, t |-> 0, m |-> 0, gap |-> "none"] : r \in RsiLevels}
    \cup {[r |-> 50, t |-> t, m |-> m, gap |-> "none"] : t \in Rel, m \in Rel}
    \cup {[r |-> 50, t |-> 0, m |-> 0, gap |-> g] :
             g \in {"RSI", "MA_long", "MACD", "MACD_Signal"}}

AnalyzerRow(i, k) ==
    [IndicatorRow(i, [a |-> 0, m |-> k.m, c |-> k.t,
                      gap |-> IF k.gap = "MA_long" THEN "MA_long" ELSE "none"])
        EXCEPT !.RSI_short = IF k.gap = "RSI" THEN NaN ELSE Num(k.r),
               !.MACD = IF k.gap = "MACD" THEN NaN ELSE @,
               !.MACD_Signal = IF k.gap = "MACD_Signal" THEN NaN ELSE @]

\* the signals argument of analyze_market_status: None, an empty frame, or
\* the signals of a frame that falls and then rises
AnalyzerSignals ==
    {None, Some(<<>>),
     generate_signals(BaseConfig,
         Some(<<IndicatorRow(1, [a |-> -1, m |-> -1, c |-> -1, gap |-> "none"]),
                IndicatorRow(2, [a |-> 1, m |-> 1, c |-> 1, gap |-> "none"])>>))[2]}

\* rows of the frames on which a rule fails: only the close moves, and with
\* it the votes of the RSI, Bollinger and price-vs-MA rules
FaultRowKinds == {k \in RowKinds : k.a = 0 /\ k.m = 0}

\* the faults of one generate_signals call: the rule whose loop raises and
\* the row it raises on
Faults ==
    {Some([rule |-> r, at |-> a]) :
        r \in {"BB_Signal", "Price_MA_Relation"}, a \in 1..MaxRows}

\* the lookback arguments of get_latest_signals
Lookbacks == {None} \cup {Some(n) : n \in 0..MaxLookback}

(***************************************************************************)
(* State machine.                                                          *)
(***************************************************************************)
\* the caller's price frame receives one more bar
FetchBar(close) ==
    /\ pc = "init"
    /\ data # None
    /\ Len(data.v) < MaxBars
    /\ data' = Some(Append(data.v, Bar(Len(data.v) + 1, close)))
    /\ UNCHANGED <<config, constructed, ind, result, signals, latest,
                   lookbackArg, mdf, cross, allsig, raised, pc,
                   status, previous, fault,
                   fetch, run>>

\* the indicator frame handed to generate_signals receives one more row
AddIndicatorRow(k) ==
    /\ pc = "calculated"
    /\ ind # None
    /\ Len(ind.v) < MaxRows
    /\ ind' = Some(Append(ind.v, IndicatorRow(Len(ind.v) + 1, k)))
    /\ UNCHANGED <<config, constructed, data, result, signals, latest,
                   lookbackArg, mdf, cross, allsig, raised, pc,
                   status, previous, fault,
                   fetch, run>>

\* the monitoring frame receives one more row
AddMonitorRow(k) ==
    /\ pc = "monitor"
    /\ mdf # None
    /\ Len(mdf.v.rows) < MaxMonitorRows
    /\ mdf' = Some([mdf.v EXCEPT
                      !.rows = Append(@, MonitorRow(Len(mdf.v.rows) + 1, k))])
    /\ UNCHANGED <<config, constructed, data, ind, result, signals, latest,
                   lookbackArg, cross, allsig, raised, pc,
                   status, previous, fault,
                   fetch, run>>

\* TechnicalIndicators.__init__ and SignalGenerator.__init__ store the
\* configuration; neither inspects it
Construct ==
    /\ pc = "init"
    /\ constructed' = TRUE
    /\ pc' = "ready"
    /\ UNCHANGED <<config, data, ind, result, signals, latest, lookbackArg,
                   mdf, cross, allsig, raised,
                   status, previous, fault,
                   fetch, run>>

\* variant: the indicator columns are written into the caller's frame
CalculateAllInPlace ==
    /\ pc = "ready"
    /\ ind' = calculate_all(config, data)
    /\ data' = IF ind' = None THEN data ELSE ind'
    /\ pc' = "calculated"
    /\ UNCHANGED <<config, constructed, result, signals, latest,
                   lookbackArg, mdf, cross, allsig, raised, status, previous, fault,
                   fetch, run>>

CalculateAll ==
    /\ pc = "ready"
    /\ ind' = calculate_all(config, data)
    /\ pc' = "calculated"
    /\ UNCHANGED <<config, constructed, data, result, signals, latest,
                   lookbackArg, mdf, cross, allsig, raised,
                   status, previous, fault,
                   fetch, run>>

\* variant: the call leaves a raised confirmation threshold in the object
GenerateSignalsRaisingThreshold ==
    /\ pc = "calculated"
    /\ LET r == generate_signals(config, ind)
       IN  /\ result' = r[1]
           /\ signals' = r[2]
    /\ config' = [config EXCEPT !.min_confirm = @ + 1]
    /\ pc' = "generated"
    /\ UNCHANGED <<constructed, data, ind, latest, lookbackArg,
                   mdf, cross, allsig, raised, status, previous, fault,
                   fetch, run>>

GenerateSignals ==
    /\ pc = "calculated"
    /\ LET r == generate_signals(config, ind)
       IN  /\ result' = r[1]
           /\ signals' = r[2]
    /\ pc' = "generated"
    /\ UNCHANGED <<config, constructed, data, ind, latest, lookbackArg,
                   mdf, cross, allsig, raised,
                   status, previous, fault,
                   fetch, run>>

\* generate_signals on a frame one of whose cells makes a rule's loop raise
GenerateSignalsWithFault(f) ==
    /\ pc = "calculated"
    /\ fault' = f
    /\ LET r == generate_signals_with_fault(config, ind, f)
       IN  /\ result' = r[1]
           /\ signals' = r[2]
    /\ pc' = "generated"
    /\ UNCHANGED <<config, constructed, data, ind, latest, lookbackArg,
                   mdf, cross, allsig, raised, status, previous,
                   fetch, run>>

\* get_latest_signals has no guard: signals.tail on None raises AttributeError
GetLatestSignals(lookback) ==
    /\ pc = "generated"
    /\ lookbackArg' = lookback
    /\ IF signals = None
       THEN raised' = "AttributeError" /\ UNCHANGED latest
       ELSE /\ latest' = Some(get_latest_signals(config, signals.v, lookback))
            /\ UNCHANGED raised
    /\ pc' = "done"
    /\ UNCHANGED <<config, constructed, data, ind, result, signals,
                   mdf, cross, allsig,
                   status, previous, fault,
                   fetch, run>>

CheckCrossSignals ==
    /\ pc = "monitor"
    /\ cross' = Some(check_cross_signals(mdf))
    /\ pc' = "crossed"
    /\ UNCHANGED <<config, constructed, data, ind, result, signals, latest,
                   lookbackArg, mdf, allsig, raised,
                   status, previous, fault,
                   fetch, run>>

CheckAllSignals ==
    /\ pc = "crossed"
    /\ LET r == check_all_signals(mdf)
       IN  IF r.raised # "none"
           THEN raised' = r.raised /\ UNCHANGED allsig
           ELSE /\ allsig' = Some([signals |-> r.signals, date |-> r.date])
                /\ UNCHANGED raised
    /\ pc' = "checked"
    /\ UNCHANGED <<config, constructed, data, ind, result, signals, latest,
                   lookbackArg, mdf, cross,
                   status, previous, fault,
                   fetch, run>>

\* the frame handed to analyze_market_status receives one more row
AddAnalyzerRow(k) ==
    /\ pc = "analyze"
    /\ ind # None
    /\ Len(ind.v) < MaxAnalyzerRows
    /\ ind' = Some(Append(ind.v, AnalyzerRow(Len(ind.v) + 1, k)))
    /\ UNCHANGED <<config, constructed, data, result, signals, latest,
                   lookbackArg, mdf, cross, allsig, raised, status, previous,
                   pc, fault,
                   fetch, run>>

AnalyzeMarketStatus ==
    /\ pc = "analyze"
    /\ status' = analyze_market_status(config, ind, signals)
    /\ pc' = "analyzed"
    /\ UNCHANGED <<config, constructed, data, ind, result, signals, latest,
                   lookbackArg, mdf, cross, allsig, raised, previous, fault,
                   fetch, run>>

\* the caller keeps what the evaluation returned and evaluates the same
\* bars again with the same objects
Repeat ==
    /\ pc = "done"
    /\ IF previous = None THEN TRUE ELSE previous.v.runs < MaxRuns
    /\ previous' = Some([runs     |-> IF previous = None THEN 1
                                      ELSE previous.v.runs + 1,
                         ind      |-> ind,
                         result   |-> result,
                         signals  |-> signals,
                         latest   |-> latest,
                         raised   |-> raised,
                         lookback |-> lookbackArg])
    /\ ind' = None
    /\ result' = None
    /\ signals' = None
    /\ latest' = None
    /\ raised' = "none"
    /\ pc' = "ready"
    /\ UNCHANGED <<config, constructed, data, lookbackArg, mdf, cross, allsig,
                   status, fault,
                   fetch, run>>

\* get_latest_signals is called again with the lookback of the first call
GetLatestSignalsAgain ==
    /\ previous # None
    /\ GetLatestSignals(previous.v.lookback)

\* the indicator pipeline on a price frame
Init ==
    /\ config \in Configs
    /\ constructed = FALSE
    /\ data \in {None, Some(<<>>)}
    /\ ind = None
    /\ result = None
    /\ signals = None
    /\ latest = None
    /\ lookbackArg = None
    /\ mdf = None
    /\ cross = None
    /\ allsig = None
    /\ raised = "none"
    /\ status = None
    /\ previous = None
    /\ fault = None
    /\ fetch = None
    /\ run = None
    /\ pc = "init"

Next ==
    \/ \E close \in Prices : FetchBar(close)
    \/ Construct
    \/ CalculateAll
    \/ GenerateSignals
    \/ \E lookback \in Lookbacks : GetLatestSignals(lookback)

Spec == Init /\ [][Next]_vars

\* generate_signals and get_latest_signals on an indicator frame
InitSignals ==
    /\ constructed = TRUE
    /\ config \in SignalConfigs
    /\ data = None
    /\ ind \in {None, Some(<<>>)}
    /\ result = None
    /\ signals = None
    /\ latest = None
    /\ lookbackArg = None
    /\ mdf = None
    /\ cross = None
    /\ allsig = None
    /\ raised = "none"
    /\ status = None
    /\ previous = None
    /\ fault = None
    /\ fetch = None
    /\ run = None
    /\ pc = "calculated"

NextSignals ==
    \/ \E k \in RowKinds : AddIndicatorRow(k)
    \/ GenerateSignals
    \/ \E lookback \in Lookbacks : GetLatestSignals(lookback)

SpecSignals == InitSignals /\ [][NextSignals]_vars

\* the monitoring script's checks on its frame
InitMonitor ==
    /\ constructed = FALSE
    /\ config = BaseConfig
    /\ data = None
    /\ ind = None
    /\ result = None
    /\ signals = None
    /\ latest = None
    /\ lookbackArg = None
    /\ mdf \in {None} \cup {Some([rows |-> <<>>, vix |-> v]) : v \in BOOLEAN}
    /\ cross = None
    /\ allsig = None
    /\ raised = "none"
    /\ status = None
    /\ previous = None
    /\ fault = None
    /\ fetch = None
    /\ run = None
    /\ pc = "monitor"

NextMonitor ==
    \/ \E k \in MonitorKinds : AddMonitorRow(k)
    \/ CheckCrossSignals
    \/ CheckAllSignals

SpecMonitor == InitMonitor /\ [][NextMonitor]_vars

\* the same checks on frames whose VIX column sits on and around the
\* boundaries of the VIX rules
NextVix ==
    \/ \E k \in VixKinds : AddMonitorRow(k)
    \/ CheckCrossSignals
    \/ CheckAllSignals

SpecVix == InitMonitor /\ [][NextVix]_vars

\* analyze_market_status on an indicator frame
InitAnalyzer ==
    /\ constructed = TRUE
    /\ config \in AnalyzerConfigs
    /\ data = None
    /\ ind \in {None, Some(<<>>)}
    /\ result = None
    /\ signals \in AnalyzerSignals
    /\ latest = None
    /\ lookbackArg = None
    /\ mdf = None
    /\ cross = None
    /\ allsig = None
    /\ raised = "none"
    /\ status = None
    /\ previous = None
    /\ fault = None
    /\ fetch = None
    /\ run = None
    /\ pc = "analyze"

NextAnalyzer ==
    \/ \E k \in AnalyzerKinds : AddAnalyzerRow(k)
    \/ AnalyzeMarketStatus

SpecAnalyzer == InitAnalyzer /\ [][NextAnalyzer]_vars

\* configurations of the repeated evaluation
RepeatConfigs ==
    {BaseConfig, [BaseConfig EXCEPT !.rsi_short = 1, !.min_confirm = 1]}

\* the indicator pipeline evaluated again and again on the same bars
InitRepeat ==
    /\ config \in RepeatConfigs
    /\ constructed = FALSE
    /\ data \in {None, Some(<<>>)}
    /\ ind = None
    /\ result = None
    /\ signals = None
    /\ latest = None
    /\ lookbackArg = None
    /\ mdf = None
    /\ cross = None
    /\ allsig = None
    /\ raised = "none"
    /\ status = None
    /\ previous = None
    /\ fault = None
    /\ fetch = None
    /\ run = None
    /\ pc = "init"

NextRepeat ==
    \/ \E close \in Prices : FetchBar(close)
    \/ Construct
    \/ CalculateAll
    \/ GenerateSignals
    \/ \E lookback \in Lookbacks : previous = None /\ GetLatestSignals(lookback)
    \/ GetLatestSignalsAgain
    \/ Repeat

SpecRepeat == InitRepeat /\ [][NextRepeat]_vars

\* generate_signals on an indicator frame, with and without a failing rule
InitFault ==
    /\ constructed = TRUE
    /\ config = BaseConfig
    /\ data = None
    /\ ind \in {None, Some(<<>>)}
    /\ result = None
    /\ signals = None
    /\ latest = None
    /\ lookbackArg = None
    /\ mdf = None
    /\ cross = None
    /\ allsig = None
    /\ raised = "none"
    /\ status = None
    /\ previous = None
    /\ fault = None
    /\ fetch = None
    /\ run = None
    /\ pc = "calculated"

NextFault ==
    \/ \E k \in FaultRowKinds : AddIndicatorRow(k)
    \/ GenerateSignals
    \/ \E f \in Faults : GenerateSignalsWithFault(f)

SpecFault == InitFault /\ [][NextFault]_vars

(***************************************************************************)
(* get_sp500_data(max_retries, retry_delay) (src/main.py).  What the two   *)
(* downloads of an attempt give is the environment's choice: the S&P 500   *)
(* download raises (the VIX download is then not reached), or each download *)
(* raises, returns nothing, or returns data.  The frame is kept as what    *)
(* matters to the caller: whether it has rows and whether it has a VIX     *)
(* column.                                                                 *)
(***************************************************************************)
Downloads ==
    {[sp |-> "raises", vix |-> "unreached"]}
    \cup [sp : {"empty", "data"}, vix : {"raises", "empty", "data"}]

\* time.sleep(retry_delay) raises ValueError for a negative delay
RetryDelays == {-1, 0, 5}

\* variant: an empty VIX result fails the attempt
PrimaryFailsOnEmptyVix(o) ==
    o.sp = "raises" \/ o.vix \in {"raises", "empty"} \/ o.sp = "empty"

\* the try block of one primary attempt reaches its except clause: a
\* download raised, or `if df is None or len(df) == 0: raise ValueError`
PrimaryFails(o) == o.sp = "raises" \/ o.vix = "raises" \/ o.sp = "empty"

\* the exception the except clause stores in last_error
PrimaryError(o) ==
    IF o.sp = "raises" \/ o.vix = "raises" THEN "download error"
    ELSE "ValueError"

\* the frame a successful primary attempt returns: df['VIX'] is set only
\* for a non-empty VIX result
PrimaryFrame(o) == [rows |-> "data", vix |-> o.vix = "data"]

\* the outer try of the fallback reaches its except clause; a failure of
\* the VIX request is caught by the inner try
FallbackFails(o) == o.sp = "raises"

\* the frame the fallback returns: built from whatever the response held,
\* joined with the VIX frame unless the VIX request failed
FallbackFrame(o) == [rows |-> o.sp, vix |-> o.vix # "raises"]

\* one pass through the body of `while retries < max_retries`
PrimaryAttempt(o) ==
    /\ pc = "fetch"
    /\ fetch.retries < fetch.max_retries
    /\ IF ~PrimaryFails(o)
       THEN /\ fetch' = [fetch EXCEPT
                           !.log = Append(@, [step |-> "primary", got |-> o]),
                           !.returned = Some(PrimaryFrame(o))]
            /\ pc' = "fetched"
            /\ UNCHANGED raised
       ELSE /\ fetch' = [fetch EXCEPT
                           !.log = Append(@, [step |-> "primary", got |-> o]),
                           !.last_error = Some(PrimaryError(o)),
                           !.retries = @ + 1]
            /\ IF fetch.retry_delay < 0
               THEN raised' = "ValueError" /\ pc' = "fetched"
               ELSE UNCHANGED <<raised, pc>>
    /\ UNCHANGED <<config, constructed, data, ind, result, signals, latest,
                   lookbackArg, mdf, cross, allsig, status, previous, fault,
                   run>>

\* the code after the loop: the request to the chart endpoint
Fallback(o) ==
    /\ pc = "fetch"
    /\ ~(fetch.retries < fetch.max_retries)
    /\ IF FallbackFails(o)
       THEN /\ fetch' = [fetch EXCEPT
                           !.log = Append(@, [step |-> "fallback", got |-> o])]
            /\ raised' = "RuntimeError"
       ELSE /\ fetch' = [fetch EXCEPT
                           !.log = Append(@, [step |-> "fallback", got |-> o]),
                           !.returned = Some(FallbackFrame(o))]
            /\ UNCHANGED raised
    /\ pc' = "fetched"
    /\ UNCHANGED <<config, constructed, data, ind, result, signals, latest,
                   lookbackArg, mdf, cross, allsig, status, previous, fault,
                   run>>

InitFetch ==
    /\ constructed = FALSE
    /\ config = BaseConfig
    /\ data = None
    /\ ind = None
    /\ result = None
    /\ signals = None
    /\ latest = None
    /\ lookbackArg = None
    /\ mdf = None
    /\ cross = None
    /\ allsig = None
    /\ raised = "none"
    /\ status = None
    /\ previous = None
    /\ fault = None
    /\ fetch \in [max_retries : 0..MaxRetries, retry_delay : RetryDelays,
                   retries : {0}, last_error : {None}, log : {<<>>},
                   returned : {None}]
    /\ run = None
    /\ pc = "fetch"

NextFetch ==
    \/ \E o \in Downloads : PrimaryAttempt(o)
    \/ \E o \in Downloads : Fallback(o)

\* every download and every sleep of the call returns or raises, so the
\* call keeps taking steps while it has one to take
SpecFetch == InitFetch /\ [][NextFetch]_vars /\ WF_vars(NextFetch)

(***************************************************************************)
(* main() (src/main.py): one run of the monitor.  The frame mdf is what    *)
(* get_sp500_data has to return; run.log lists the calls main makes.       *)
(***************************************************************************)
\* datetime.datetime.now().weekday(): Monday is 0
Weekdays == 0..6

\* the rows of the frames main() is run on: the close moves against the
\* averages or the MACD against its signal line
MainKinds == {k \in MonitorKinds : k.w /\ (k.c = 0 \/ k.m = 0)}

\* an entry of run.log: the function called, for create_chart and
\* send_email_alert the report it serves, and whether a chart path is passed
Call(op, kind, chart) == [op |-> op, kind |-> kind, chart |-> chart]

\* `not all_signals and not golden_cross and not death_cross` is false
HasSignal(sig, cr) ==
    \/ \E k \in DOMAIN sig : sig[k] # Absent
    \/ cr.golden_cross
    \/ cr.death_cross

\* variant: on a Monday the weekly report is sent, whatever was detected
ReportKindWeeklyFirst(hasSignal, weekday) ==
    IF weekday = 0 THEN "weekly"
    ELSE IF hasSignal THEN "alert"
    ELSE "none"

\* the branch main() takes after the two checks
ReportKind(hasSignal, weekday) ==
    IF ~hasSignal
    THEN IF weekday = 0 THEN "weekly" ELSE "none"
    ELSE "alert"

\* data = get_sp500_data() inside the try: the call raises, or returns the
\* frame, which main() tests for emptiness
MainGetData(o) ==
    /\ pc = "monitor"
    /\ run.got = "pending"
    /\ LET got == IF o = "raises" THEN "raised"
                  ELSE IF Len(mdf.v.rows) = 0 THEN "empty"
                  ELSE "data"
       IN  /\ run' = [run EXCEPT
                         !.got = got,
                         !.log = Append(@, Call("get_sp500_data", "none", FALSE))]
           /\ pc' = IF got = "data" THEN "main_data" ELSE "main_failed"
    /\ UNCHANGED <<config, constructed, data, ind, result, signals, latest,
                   lookbackArg, mdf, cross, allsig, raised, status, previous,
                   fault, fetch>>

\* send_email_alert(error_subject, error_body); return
MainErrorReport ==
    /\ pc = "main_failed"
    /\ run' = [run EXCEPT
                  !.log = Append(@, Call("send_email_alert", "error", FALSE))]
    /\ pc' = "main_end"
    /\ UNCHANGED <<config, constructed, data, ind, result, signals, latest,
                   lookbackArg, mdf, cross, allsig, raised, status, previous,
                   fault, fetch>>

\* golden_cross, death_cross, simple_signal_date = check_cross_signals(data)
MainCheckCross ==
    /\ pc = "main_data"
    /\ cross' = Some(check_cross_signals(mdf))
    /\ run' = [run EXCEPT
                  !.log = Append(@, Call("check_cross_signals", "none", FALSE))]
    /\ pc' = "main_crossed"
    /\ UNCHANGED <<config, constructed, data, ind, result, signals, latest,
                   lookbackArg, mdf, allsig, raised, status, previous,
                   fault, fetch>>

\* all_signals, signal_date = check_all_signals(data), on a frame with rows
MainCheckAll ==
    /\ pc = "main_crossed"
    /\ LET r == check_all_signals(mdf)
       IN  allsig' = Some([signals |-> r.signals, date |-> r.date])
    /\ run' = [run EXCEPT
                  !.log = Append(@, Call("check_all_signals", "none", FALSE))]
    /\ pc' = "main_checked"
    /\ UNCHANGED <<config, constructed, data, ind, result, signals, latest,
                   lookbackArg, mdf, cross, raised, status, previous,
                   fault, fetch>>

\* chart_path = create_chart(...), in the weekly branch or the alert branch
MainCreateChart ==
    /\ pc = "main_checked"
    /\ LET kind == ReportKind(HasSignal(allsig.v.signals, cross.v), run.weekday)
       IN  /\ kind # "none"
           /\ run' = [run EXCEPT
                         !.log = Append(@, Call("create_chart", kind, FALSE))]
    /\ pc' = "main_chart"
    /\ UNCHANGED <<config, constructed, data, ind, result, signals, latest,
                   lookbackArg, mdf, cross, allsig, raised, status, previous,
                   fault, fetch>>

\* send_email_alert(subject, body, chart_path) of the branch taken
MainSendReport ==
    /\ pc = "main_chart"
    /\ LET kind == ReportKind(HasSignal(allsig.v.signals, cross.v), run.weekday)
       IN  run' = [run EXCEPT
                     !.log = Append(@, Call("send_email_alert", kind, TRUE))]
    /\ pc' = "main_end"
    /\ UNCHANGED <<config, constructed, data, ind, result, signals, latest,
                   lookbackArg, mdf, cross, allsig, raised, status, previous,
                   fault, fetch>>

\* no signal and not Monday: main() prints and returns
MainNoReport ==
    /\ pc = "main_checked"
    /\ ReportKind(HasSignal(allsig.v.signals, cross.v), run.weekday) = "none"
    /\ pc' = "main_end"
    /\ UNCHANGED <<config, constructed, data, ind, result, signals, latest,
                   lookbackArg, mdf, cross, allsig, raised, status, previous,
                   fault, fetch, run>>

InitMain ==
    /\ constructed = FALSE
    /\ config = BaseConfig
    /\ data = None
    /\ ind = None
    /\ result = None
    /\ signals = None
    /\ latest = None
    /\ lookbackArg = None
    /\ mdf \in {Some([rows |-> <<>>, vix |-> v]) : v \in BOOLEAN}
    /\ cross = None
    /\ allsig = None
    /\ raised = "none"
    /\ status = None
    /\ previous = None
    /\ fault = None
    /\ fetch = None
    /\ run \in [weekday : Weekdays, got : {"pending"}, log : {<<>>}]
    /\ pc = "monitor"

NextMain ==
    \/ \E k \in MainKinds : AddMonitorRow(k)
    \/ \E o \in {"raises", "returns"} : MainGetData(o)
    \/ MainErrorReport
    \/ MainCheckCross
    \/ MainCheckAll
    \/ MainCreateChart
    \/ MainSendReport
    \/ MainNoReport

SpecMain == InitMain /\ [][NextMain]_vars

(***************************************************************************)
(* Properties.                                                             *)
(***************************************************************************)
Generated == pc \in {"generated", "done"} /\ ind # None /\ signals # None

\* the vote a rule column carries for date t in the signals frame; a date
\* without a row carries no signal
VoteAt(t, col) ==
    IF \E i \in 1..Len(signals.v) : signals.v[i].Date = t
    THEN LET i == CHOOSE j \in 1..Len(signals.v) : signals.v[j].Date = t
         IN  signals.v[i][col]
    ELSE 0

\* the indicator columns each rule compares
RuleInputs ==
    [MA_Signal         |-> {"MA_short", "MA_long"},
     RSI_Signal        |-> {"RSI_short"},
     MACD_Signal       |-> {"MACD", "MACD_Signal"},
     BB_Signal         |-> {"Close", "BB_Lower", "BB_Upper"},
     Price_MA_Relation |-> {"Close", "MA_long"}]

UndefinedAround(t, col) ==
    \E c \in RuleInputs[col] :
        \/ ind.v[t][c].nan
        \/ t > 1 /\ ind.v[t - 1][c].nan

\* C1: for every rule and every date t, if a series the rule compares is
\* undefined at t-1 or at t, the rule emits 0 at t and nothing is raised,
\* wherever in the series the undefined value lies.
C1_UndefinedGivesNoSignal ==
    Generated =>
        /\ raised = "none"
        /\ \A t \in 1..Len(ind.v) : \A col \in signal_columns :
              UndefinedAround(t, col) => VoteAt(t, col) = 0

\* the two-series rules of generate_signals: column, series A, series B
TwoSeriesRules ==
    {<<"MA_Signal", "MA_short", "MA_long">>,
     <<"MACD_Signal", "MACD", "MACD_Signal">>,
     <<"Price_MA_Relation", "Close", "MA_long">>}

\* C2 as stated: on adjacent dates with both series defined a two-series
\* rule emits +1 iff A is below B at t-1 and above B at t, -1 iff A is above
\* B at t-1 and below B at t, and 0 otherwise.
C2_StrictCrossing ==
    Generated =>
        \A t \in 2..Len(ind.v) : \A r \in TwoSeriesRules :
            LET A0 == ind.v[t - 1][r[2]]
                B0 == ind.v[t - 1][r[3]]
                A1 == ind.v[t][r[2]]
                B1 == ind.v[t][r[3]]
            IN  (~A0.nan /\ ~B0.nan /\ ~A1.nan /\ ~B1.nan) =>
                    VoteAt(t, r[1]) =
                        IF Cmp(A0, B0) < 0 /\ Cmp(A1, B1) > 0 THEN 1
                        ELSE IF Cmp(A0, B0) > 0 /\ Cmp(A1, B1) < 0 THEN -1
                        ELSE 0

AllDefined(row) == \A c \in IndicatorColumns : ~row[c].nan

\* C2 as amended: on adjacent dates t-1 and t on which every column of the
\* frame is defined, a two-series rule emits +1 iff A is not above B at t-1
\* and above B at t, -1 iff A is not below B at t-1 and below B at t, and 0
\* otherwise.
C2_CrossingOnDefinedRows ==
    Generated =>
        \A t \in 2..Len(ind.v) : \A r \in TwoSeriesRules :
            LET A0 == ind.v[t - 1][r[2]]
                B0 == ind.v[t - 1][r[3]]
                A1 == ind.v[t][r[2]]
                B1 == ind.v[t][r[3]]
            IN  (AllDefined(ind.v[t - 1]) /\ AllDefined(ind.v[t])) =>
                    VoteAt(t, r[1]) =
                        IF Cmp(A0, B0) <= 0 /\ Cmp(A1, B1) > 0 THEN 1
                        ELSE IF Cmp(A0, B0) >= 0 /\ Cmp(A1, B1) < 0 THEN -1
                        ELSE 0

\* a close that was equal to the long average and then rose above it is
\* reported as +1, and a close that crossed from below is reported as +1
C2_Witness ==
    /\ Generated
    /\ \E t \in 2..Len(ind.v) :
          /\ AllDefined(ind.v[t - 1]) /\ AllDefined(ind.v[t])
          /\ Cmp(ind.v[t - 1].Close, ind.v[t - 1].MA_long) = 0
          /\ VoteAt(t, "Price_MA_Relation") = 1
    /\ \E t \in 2..Len(ind.v) :
          /\ AllDefined(ind.v[t - 1]) /\ AllDefined(ind.v[t])
          /\ Cmp(ind.v[t - 1].MA_short, ind.v[t - 1].MA_long) > 0
          /\ VoteAt(t, "MA_Signal") = -1

Positive(x) == IF x > 0 THEN 1 ELSE 0
Negative(x) == IF x < 0 THEN 1 ELSE 0

\* C3: on every date of the signals frame Total_Buy_Signals is the number of
\* the five rule columns that are > 0 and Total_Sell_Signals the number that
\* are < 0; Buy_Signal = 1 iff Total_Buy_Signals >= min_confirm and
\* Sell_Signal = 1 iff Total_Sell_Signals >= min_confirm, independently.
C3_TotalsAndConfirmation ==
    Generated =>
        \A i \in 1..Len(signals.v) :
            LET r == signals.v[i]
            IN  /\ r.Total_Buy_Signals =
                      Positive(r.MA_Signal) + Positive(r.RSI_Signal)
                      + Positive(r.MACD_Signal) + Positive(r.BB_Signal)
                      + Positive(r.Price_MA_Relation)
                /\ r.Total_Sell_Signals =
                      Negative(r.MA_Signal) + Negative(r.RSI_Signal)
                      + Negative(r.MACD_Signal) + Negative(r.BB_Signal)
                      + Negative(r.Price_MA_Relation)
                /\ r.Buy_Signal \in {0, 1}
                /\ r.Sell_Signal \in {0, 1}
                /\ r.Buy_Signal = 1 <=> r.Total_Buy_Signals >= config.min_confirm
                /\ r.Sell_Signal = 1 <=> r.Total_Sell_Signals >= config.min_confirm

\* two +1 votes and one -1 vote with min_confirm = 2: Buy and not Sell
C3_Witness ==
    /\ Generated
    /\ config.min_confirm = 2
    /\ \E i \in 1..Len(signals.v) :
          /\ signals.v[i].Total_Buy_Signals = 2
          /\ signals.v[i].Total_Sell_Signals = 1
          /\ signals.v[i].Buy_Signal = 1
          /\ signals.v[i].Sell_Signal = 0

\* the dictionary entry get_latest_signals builds for row r
EntryOf(r, total) ==
    [date |-> Strftime(r.Date), price |-> r.Price,
     ma_signal |-> r.MA_Signal, rsi_signal |-> r.RSI_Signal,
     macd_signal |-> r.MACD_Signal, bb_signal |-> r.BB_Signal,
     price_ma_signal |-> r.Price_MA_Relation, total_signals |-> r[total]]

\* C4: when the buy votes and the sell votes of one date both reach
\* min_confirm, Buy_Signal and Sell_Signal are both 1 on that date, in the
\* signals frame and in the result frame, and when that date is the last row
\* get_latest_signals (with a window of at least one row) names it both as
\* latest_buy and as latest_sell: neither flag is cleared in favour of the
\* other.
C4_BothConfirmedBothReported ==
    Generated =>
        /\ Len(result.v) = Len(signals.v)
        /\ \A i \in 1..Len(signals.v) :
              LET r == signals.v[i]
              IN  (/\ r.Total_Buy_Signals >= config.min_confirm
                   /\ r.Total_Sell_Signals >= config.min_confirm) =>
                      /\ r.Buy_Signal = 1 /\ r.Sell_Signal = 1
                      /\ result.v[i].Buy_Signal = 1
                      /\ result.v[i].Sell_Signal = 1
                      /\ (/\ pc = "done"
                          /\ i = Len(signals.v)
                          /\ lookbackArg \notin {Some(0)}) =>
                             /\ latest.v.latest_buy = EntryOf(r, "Total_Buy_Signals")
                             /\ latest.v.latest_sell = EntryOf(r, "Total_Sell_Signals")

\* a date with Buy_Signal = 1 and Sell_Signal = 1, reported by
\* get_latest_signals under both keys
C4_Witness ==
    /\ Generated
    /\ pc = "done"
    /\ config.min_confirm <= 2
    /\ Len(signals.v) > 0
    /\ signals.v[Len(signals.v)].Buy_Signal = 1
    /\ signals.v[Len(signals.v)].Sell_Signal = 1
    /\ latest.v.latest_buy # None
    /\ latest.v.latest_sell # None
    /\ latest.v.latest_buy.date = latest.v.latest_sell.date

\* the lookback get_latest_signals works with
EffectiveLookback ==
    IF lookbackArg = None THEN config.lookback ELSE lookbackArg.v

\* positions of the last EffectiveLookback rows of the signals frame
Window ==
    {i \in 1..Len(signals.v) : i > Len(signals.v) - EffectiveLookback}

Max(S) == CHOOSE x \in S : \A y \in S : y <= x

\* what C5 requires under key flag: the most recent row of the window whose
\* flag is 1, None if there is none
ExpectedLatest(flag, total) ==
    LET hits == {i \in Window : signals.v[i][flag] = 1}
    IN  IF hits = {} THEN None ELSE EntryOf(signals.v[Max(hits)], total)

\* C5: get_latest_signals returns as latest_buy the most recent date among
\* the last lookback rows whose Buy_Signal is 1 and None when there is none
\* (a Buy older than the window is never returned); latest_sell likewise
\* from Sell_Signal, independently; a lookback of None means the configured
\* signals.lookback.
C5_LatestWithinLookback ==
    (Generated /\ pc = "done") =>
        /\ raised = "none"
        /\ latest.v.latest_buy = ExpectedLatest("Buy_Signal", "Total_Buy_Signals")
        /\ latest.v.latest_sell = ExpectedLatest("Sell_Signal", "Total_Sell_Signals")

\* the only confirmed Buy lies before the window, so latest_buy is None,
\* while a Sell inside the window is returned
C5_Witness ==
    /\ Generated
    /\ pc = "done"
    /\ \E i \in 1..Len(signals.v) : i \notin Window /\ signals.v[i].Buy_Signal = 1
    /\ \A i \in Window : signals.v[i].Buy_Signal = 0
    /\ latest.v.latest_buy = None
    /\ latest.v.latest_sell # None

\* the monitoring frame is missing or has fewer than 3 rows
ShortMonitorFrame == mdf = None \/ Len(mdf.v.rows) < 3

MonitorLastDate == IF mdf = None THEN None ELSE LastDate(mdf.v.rows)

\* C6: for a missing frame or a frame of 0, 1 or 2 rows, check_cross_signals
\* yields no cross and check_all_signals an empty signal set, each with the
\* last date (None without rows), and nothing is raised.
C6_ShortFramesAreHandled ==
    ShortMonitorFrame =>
        /\ raised = "none"
        /\ pc \in {"crossed", "checked"} =>
              cross = Some([golden_cross |-> FALSE, death_cross |-> FALSE,
                            date |-> MonitorLastDate])
        /\ pc = "checked" =>
              allsig = Some([signals |-> NoSignals, date |-> MonitorLastDate])

Largest(S) == CHOOSE x \in S : \A y \in S : y <= x

\* the largest rolling window of the configuration (the exponential
\* averages of the MACD have no window: they are defined from the first bar)
LargestWindow(cfg) ==
    Largest({cfg.ma_short, cfg.ma_long, cfg.rsi_short, cfg.rsi_long,
             cfg.bb_period})

\* C7: with fewer bars than the largest configured window, calculate_all
\* followed by generate_signals raises nothing and returns frames without
\* any date, so no Buy or Sell is confirmed; for a missing or empty input
\* calculate_all returns None and generate_signals returns (None, None).
C7_ShortInputGivesEmptyOutcome ==
    /\ (pc \in {"calculated", "generated", "done"} /\ IsEmptyFrame(data)) =>
          ind = None
    /\ (pc \in {"generated", "done"} /\ IsEmptyFrame(data)) =>
          result = None /\ signals = None
    /\ (pc = "generated" /\ ~IsEmptyFrame(data)
          /\ Len(data.v) < LargestWindow(config)) =>
          /\ raised = "none"
          /\ ind # None /\ Len(ind.v) = Len(data.v)
          /\ result = Some(<<>>)
          /\ signals = Some(<<>>)

\* one bar short of the largest window: nothing is reported
C7_Witness ==
    /\ pc = "generated"
    /\ ~IsEmptyFrame(data)
    /\ Len(data.v) = LargestWindow(config) - 1
    /\ signals = Some(<<>>)
    /\ raised = "none"

ValidConfiguration(cfg) ==
    /\ cfg.macd_fast < cfg.macd_slow
    /\ \A w \in {cfg.ma_short, cfg.ma_long, cfg.rsi_short, cfg.rsi_long,
                 cfg.macd_fast, cfg.macd_slow, cfg.macd_signal,
                 cfg.bb_period} : w > 0

\* C8: a configuration whose MACD fast span is not strictly smaller than
\* the slow span, or with a non-positive window, period or span, is never
\* accepted: no object is constructed from it and no indicator is produced.
C8_InvalidConfigurationRejected ==
    (constructed \/ ind # None) => ValidConfiguration(config)

\* the rows of the frame calculate_all returned
Calculated == pc \in {"calculated", "generated", "done"} /\ ind # None

Periods(col) == IF col = "RSI_short" THEN config.rsi_short ELSE config.rsi_long

\* C9: wherever the RSI is defined, a zero average loss with a positive
\* average gain gives exactly 100 and a zero average gain and loss give
\* exactly 50, never an undefined value.
C9_RsiDegenerateCases ==
    Calculated =>
        \A i \in 1..Len(ind.v) : \A col \in {"RSI_short", "RSI_long"} :
            LET close == Column(ind.v, "Close")
                ag    == AvgGain(close, Periods(col))[i]
                al    == AvgLoss(close, Periods(col))[i]
            IN  (~ag.nan /\ ~al.nan /\ al.n = 0) =>
                    ind.v[i][col] = IF ag.n > 0 THEN Num(100) ELSE Num(50)

\* C10: every defined value of the two RSI columns lies in [0, 100].
C10_RsiWithinBounds ==
    Calculated =>
        \A i \in 1..Len(ind.v) : \A col \in {"RSI_short", "RSI_long"} :
            ~ind.v[i][col].nan =>
                /\ Cmp(ind.v[i][col], Num(0)) >= 0
                /\ Cmp(ind.v[i][col], Num(100)) <= 0

\* a frame whose RSI column reaches 0, a value strictly inside the range,
\* and the value next to 100 that a zero average loss produces
C10_Witness ==
    /\ Calculated
    /\ \E i \in 1..Len(ind.v) : ind.v[i].RSI_short = Num(0)
    /\ \E i \in 1..Len(ind.v) :
          /\ ~ind.v[i].RSI_short.nan
          /\ Cmp(ind.v[i].RSI_short, Num(0)) > 0
          /\ Cmp(ind.v[i].RSI_short, Num(50)) < 0
    /\ \E i \in 1..Len(ind.v) :
          /\ ~ind.v[i].RSI_short.nan
          /\ ind.v[i].RSI_short.n = 100

\* Wilder smoothing of a gain or loss series g (g[1] belongs to the undefined
\* first price change) as a relation on an average series avg: undefined
\* until period changes are defined, then their simple mean, then the
\* recurrence
IsWilderAverage(avg, g, period) ==
    \A i \in 1..Len(g) :
        IF i <= period THEN avg[i].nan
        ELSE IF i = period + 1
        THEN avg[i] = Mul(SumWindow(g, 2, period + 1), Rat(1, period))
        ELSE avg[i] = Mul(Add(Mul(avg[i - 1], Num(period - 1)), g[i]),
                          Rat(1, period))

\* C11: the average gain and the average loss behind each RSI column are
\* Wilder-smoothed: the first defined average is the simple mean of the
\* first period defined price changes, and every later one is
\* (previous * (period - 1) + current) / period.
C11_WilderSmoothing ==
    Calculated =>
        \A col \in {"RSI_short", "RSI_long"} :
            LET close == Column(ind.v, "Close")
                delta == Diff(close)
            IN  /\ IsWilderAverage(AvgGain(close, Periods(col)), Gain(delta),
                                   Periods(col))
                /\ IsWilderAverage(AvgLoss(close, Periods(col)), Loss(delta),
                                   Periods(col))

RECURSIVE SumOfCloses(_, _)
\* Close[lo] + ... + Close[hi] of the caller's frame, whose closes are whole
SumOfCloses(lo, hi) ==
    IF lo > hi THEN 0 ELSE data.v[hi].Close.n + SumOfCloses(lo, hi - 1)

Windows(col) == IF col = "MA_short" THEN config.ma_short ELSE config.ma_long

\* C12: at every index i the moving-average column of window w is the exact
\* arithmetic mean of the w closes ending at i once w closes exist, and is
\* undefined (not zero) before.
C12_MovingAverageIsExactMean ==
    Calculated =>
        \A col \in {"MA_short", "MA_long"} : \A i \in 1..Len(ind.v) :
            LET w == Windows(col)
            IN  IF i < w THEN ind.v[i][col] = NaN
                ELSE ind.v[i][col] = Rat(SumOfCloses(i - w + 1, i), w)

\* a frame with warm-up rows and a mean that is not a whole number
C12_Witness ==
    /\ Calculated
    /\ config.ma_long = 3
    /\ Len(ind.v) >= 4
    /\ ind.v[2].MA_long.nan
    /\ ind.v[3].MA_long.d = 3
    /\ ind.v[4].MA_long # ind.v[3].MA_long

\* the exponential averages of calculate_macd: column, source column, span
Averages ==
    {<<"EMA_fast", "Close", config.macd_fast>>,
     <<"EMA_slow", "Close", config.macd_slow>>,
     <<"MACD_Signal", "MACD", config.macd_signal>>}

\* C13: each exponential average of calculate_macd is defined from the
\* first index, starts at the first value of its series, and afterwards is
\* a * series[i] + (1 - a) * ema[i-1] with a = 2 / (span + 1), in date order.
C13_EmaRecurrence ==
    Calculated =>
        \A e \in Averages : \A i \in 1..Len(ind.v) :
            LET a == Rat(2, e[3] + 1)
            IN  /\ ~ind.v[i][e[1]].nan
                /\ ind.v[i].Date = i
                /\ IF i = 1 THEN ind.v[1][e[1]] = ind.v[1][e[2]]
                   ELSE ind.v[i][e[1]] =
                            Add(Mul(a, ind.v[i][e[2]]),
                                Mul(Sub(Num(1), a), ind.v[i - 1][e[1]]))

\* a frame on which the slow average lags the close over three bars
C13_Witness ==
    /\ Calculated
    /\ config.macd_slow = 2
    /\ Len(ind.v) >= 3
    /\ ind.v[2].EMA_slow # ind.v[2].Close
    /\ ind.v[3].EMA_slow # ind.v[3].Close
    /\ ind.v[3].EMA_slow # ind.v[2].EMA_slow
    /\ ind.v[3].MACD_Signal # ind.v[3].MACD

\* C14: at every index MACD = EMA_fast - EMA_slow, MACD_Signal is the
\* exponential average of the MACD column with the signal span and
\* MACD_Histogram = MACD - MACD_Signal; so the histogram is positive exactly
\* when MACD is above its signal line, and all three are 0 at the first index.
C14_MacdIdentities ==
    Calculated =>
        LET sig == Ewm(Column(ind.v, "MACD"), config.macd_signal)
        IN  \A i \in 1..Len(ind.v) :
                LET r == ind.v[i]
                IN  /\ r.MACD = Sub(r.EMA_fast, r.EMA_slow)
                    /\ r.MACD_Signal = sig[i]
                    /\ r.MACD_Histogram = Sub(r.MACD, r.MACD_Signal)
                    /\ Gt(r.MACD_Histogram, Num(0)) <=> Gt(r.MACD, r.MACD_Signal)
                    /\ i = 1 => /\ r.MACD = Num(0)
                                /\ r.MACD_Signal = Num(0)
                                /\ r.MACD_Histogram = Num(0)

\* a frame whose histogram is positive on one date and negative on another
C14_Witness ==
    /\ Calculated
    /\ \E i \in 1..Len(ind.v) : Gt(ind.v[i].MACD_Histogram, Num(0))
    /\ \E i \in 1..Len(ind.v) : Lt(ind.v[i].MACD_Histogram, Num(0))
    /\ \E i \in 1..Len(ind.v) :
          ind.v[i].MACD # Num(0) /\ ind.v[i].MACD_Histogram = Num(0)

RECURSIVE SumSqFromMean(_, _, _)
\* sum over j in lo..hi of (Close[j] - mean)^2 of the caller's frame
SumSqFromMean(lo, hi, mean) ==
    IF lo > hi THEN Num(0)
    ELSE LET dev == Sub(data.v[hi].Close, mean)
         IN  Add(Mul(dev, dev), SumSqFromMean(lo, hi - 1, mean))

\* the sample variance of the p closes ending at index i, for p >= 2
SampleVariance(i, p) ==
    LET mean == Rat(SumOfCloses(i - p + 1, i), p)
    IN  Mul(SumSqFromMean(i - p + 1, i, mean), Rat(1, p - 1))

\* band = mid + sgn * k * sqrt(var), for a rational mid and variance var
IsBand(band, mid, sgn, k, var) ==
    /\ ~band.nan
    /\ Rat(band.n, band.d) = mid
    /\ band.u = 0
    /\ IF var = Num(0) \/ k = 0 THEN band.q = 0
       ELSE /\ band.sg = sgn
            /\ Rat(band.q, band.d * band.d) = Mul(Num(k * k), var)

\* the bands of row i lie k sample standard deviations around the middle
BandsAround(i) ==
    LET r   == ind.v[i]
        p   == config.bb_period
        k   == config.bb_std_dev
    IN  /\ IsBand(r.BB_Upper, r.BB_Middle, 1, k, SampleVariance(i, p))
        /\ IsBand(r.BB_Lower, r.BB_Middle, -1, k, SampleVariance(i, p))
        /\ Cmp(r.BB_Lower, r.BB_Middle) <= 0
        /\ Cmp(r.BB_Middle, r.BB_Upper) <= 0

MiddleIsMovingAverage(i) ==
    ind.v[i].BB_Middle =
        IF i < config.bb_period THEN NaN
        ELSE Rat(SumOfCloses(i - config.bb_period + 1, i), config.bb_period)

\* C15 as stated: for every period p >= 1, BB_Middle is the p-bar moving
\* average of Close, BB_Upper and BB_Lower are defined at exactly the indices
\* where BB_Middle is, and there they lie k sample standard deviations above
\* and below it, so BB_Lower <= BB_Middle <= BB_Upper.
C15_BandsDefinedWithMiddle ==
    Calculated =>
        \A i \in 1..Len(ind.v) :
            /\ MiddleIsMovingAverage(i)
            /\ ind.v[i].BB_Upper.nan <=> ind.v[i].BB_Middle.nan
            /\ ind.v[i].BB_Lower.nan <=> ind.v[i].BB_Middle.nan
            /\ ~ind.v[i].BB_Middle.nan => BandsAround(i)

\* C15 amended: the same for every period p >= 2; for p = 1 the sample
\* standard deviation of a single close does not exist, BB_Middle is the
\* close itself and the two bands are undefined at every index.
C15_BandsForPeriodAtLeastTwo ==
    Calculated =>
        \A i \in 1..Len(ind.v) :
            /\ MiddleIsMovingAverage(i)
            /\ IF config.bb_period >= 2
               THEN /\ ind.v[i].BB_Upper.nan <=> ind.v[i].BB_Middle.nan
                    /\ ind.v[i].BB_Lower.nan <=> ind.v[i].BB_Middle.nan
                    /\ ~ind.v[i].BB_Middle.nan => BandsAround(i)
               ELSE /\ ind.v[i].BB_Middle = ind.v[i].Close
                    /\ ind.v[i].BB_Upper.nan
                    /\ ind.v[i].BB_Lower.nan

\* a frame with a warm-up row, a row whose bands lie strictly around the
\* middle and a row whose window is flat
C15_Witness ==
    /\ Calculated
    /\ config.bb_period = 2
    /\ Len(ind.v) >= 3
    /\ ind.v[1].BB_Upper.nan
    /\ \E i \in 2..Len(ind.v) :
          /\ Lt(ind.v[i].BB_Lower, ind.v[i].BB_Middle)
          /\ Lt(ind.v[i].BB_Middle, ind.v[i].BB_Upper)
    /\ \E i \in 2..Len(ind.v) : ind.v[i].BB_Upper = ind.v[i].BB_Middle

\* analyze_market_status has returned a status for a frame with rows
Analyzed == pc = "analyzed" /\ ind # None /\ ind.v # <<>>

LatestRow == ind.v[Len(ind.v)]

\* C16: the latest RSI gets exactly one strength label: Overbought above
\* the overbought threshold, else Oversold below the oversold threshold,
\* else Strong above 50, else Weak; with thresholds 70 and 30, 75 is
\* Overbought, 55 Strong, 45 Weak, 25 Oversold, 70 and 30 are neither
\* Overbought nor Oversold, and 50 is Weak.
C16_StrengthLabel ==
    Analyzed =>
        LET rsi   == LatestRow.RSI_short
            over  == Gt(rsi, Num(config.rsi_overbought))
            under == Lt(rsi, Num(config.rsi_oversold))
            label == status.v.strength
        IN  /\ status # None
            /\ label \in {"Overbought", "Oversold", "Strong", "Weak"}
            /\ label = "Overbought" <=> over
            /\ label = "Oversold" <=> (~over /\ under)
            /\ label = "Strong" <=> (~over /\ ~under /\ Gt(rsi, Num(50)))
            /\ (config.rsi_overbought = 70 /\ config.rsi_oversold = 30) =>
                  /\ rsi = Num(75) => label = "Overbought"
                  /\ rsi = Num(55) => label = "Strong"
                  /\ rsi = Num(45) => label = "Weak"
                  /\ rsi = Num(25) => label = "Oversold"
                  /\ rsi = Num(70) => label = "Strong"
                  /\ rsi = Num(30) => label = "Weak"
                  /\ rsi = Num(50) => label = "Weak"

\* an RSI on the overbought threshold, after a row that was beyond it
C16_Witness ==
    /\ Analyzed
    /\ config.rsi_overbought = 70
    /\ Len(ind.v) = 2
    /\ ind.v[1].RSI_short = Num(75)
    /\ LatestRow.RSI_short = Num(70)
    /\ status.v.strength = "Strong"

\* C17: the trend is Uptrend iff the latest close is strictly above the
\* latest long average and Downtrend otherwise, the momentum is Bullish iff
\* the latest MACD is strictly above its signal line and Bearish otherwise;
\* both are functions of the last row alone, whatever the earlier rows and
\* the signals argument.
C17_TrendAndMomentum ==
    Analyzed =>
        /\ status # None
        /\ status.v.trend =
              IF Cmp(LatestRow.Close, LatestRow.MA_long) > 0
                 /\ ~LatestRow.MA_long.nan
              THEN "Uptrend" ELSE "Downtrend"
        /\ status.v.momentum =
              IF ~LatestRow.MACD.nan
                 /\ Cmp(LatestRow.MACD, LatestRow.MACD_Signal) > 0
              THEN "Bullish" ELSE "Bearish"

\* the close sits on the long average after a row above it, and a signals
\* frame with rows was passed
C17_Witness ==
    /\ Analyzed
    /\ Len(ind.v) = 2
    /\ signals # None /\ signals.v # <<>>
    /\ Gt(ind.v[1].Close, ind.v[1].MA_long)
    /\ LatestRow.Close = LatestRow.MA_long
    /\ Gt(ind.v[1].MACD, ind.v[1].MACD_Signal)
    /\ LatestRow.MACD = LatestRow.MACD_Signal
    /\ status.v.trend = "Downtrend"
    /\ status.v.momentum = "Bearish"

\* C19: the signals and the result of generate_signals have one entry per
\* input date, in the input's order; a date on which some indicator is
\* undefined has its entry too, with 0 for every rule.
C19_EveryDateHasAnEntry ==
    Generated =>
        /\ Len(signals.v) = Len(ind.v)
        /\ Len(result.v) = Len(ind.v)
        /\ \A i \in 1..Len(ind.v) :
              /\ signals.v[i].Date = ind.v[i].Date
              /\ result.v[i].row.Date = ind.v[i].Date
              /\ HasNaN(ind.v[i]) =>
                    \A col \in signal_columns : signals.v[i][col] = 0

\* the columns of a bar of the caller's frame
BarColumns == {"Date", "Close", "Volume"}

\* frame f has the dates of the caller's frame in their order and its
\* columns unchanged, next to the added ones
ExtendsInput(f) ==
    /\ Len(f) = Len(data.v)
    /\ \A i \in 1..Len(f) :
          /\ BarColumns \subseteq DOMAIN f[i]
          /\ \A c \in BarColumns : f[i][c] = data.v[i][c]

\* the caller's frame with the indicator columns not yet computed
Widened == [i \in 1..Len(data.v) |-> Widen(data.v[i])]

\* C20: calculate_all, and each of the four calculations on its own,
\* returns a frame with the input's dates in the same order and the input's
\* columns unchanged next to the added indicator columns, and the call
\* leaves the caller's frame and the configuration as they were.
C20_CalculateAllOnlyAddsColumns ==
    [][pc = "ready" =>
          /\ data' = data
          /\ config' = config
          /\ IsEmptyFrame(data) => ind' = None
          /\ ~IsEmptyFrame(data) =>
                /\ ind' # None
                /\ ExtendsInput(ind'.v)
                /\ DOMAIN ind'.v[1] = {"Date"} \cup IndicatorColumns
                /\ ExtendsInput(calculate_moving_averages(config, Widened))
                /\ ExtendsInput(calculate_rsi(config, Widened))
                /\ ExtendsInput(calculate_macd(config, Widened))
                /\ ExtendsInput(calculate_bollinger_bands(config, Widened))]_vars

\* a frame of four bars has been through calculate_all and carries defined
\* indicators next to its own columns
C20_Witness ==
    /\ pc = "calculated"
    /\ data # None /\ Len(data.v) = 4
    /\ ind # None /\ Len(ind.v) = 4
    /\ ~HasNaN(ind.v[4])
    /\ data.v[4].Close # data.v[3].Close

CheckedAll == pc = "checked" /\ mdf # None /\ Len(mdf.v.rows) >= 3 /\ allsig # None

Today == mdf.v.rows[Len(mdf.v.rows)]

Yesterday == mdf.v.rows[Len(mdf.v.rows) - 1]

DayBeforeYesterday == mdf.v.rows[Len(mdf.v.rows) - 2]

\* C21: check_all_signals reports 'Lower Bounce' at the latest date t only
\* if the close is at or below the lower band at t-2 and at t-1 and above it
\* at t; these three conditions include the two-point condition under which
\* generate_signals sets BB_Signal = +1; and one bar at or below the band
\* followed by a bar above it never gives 'Lower Bounce'.
C21_BounceNeedsTwoBarsBelow ==
    CheckedAll =>
        LET below2 == Le(DayBeforeYesterday.Close, DayBeforeYesterday.BB_Lower)
            below1 == Le(Yesterday.Close, Yesterday.BB_Lower)
            above  == Gt(Today.Close, Today.BB_Lower)
            upper  == /\ Ge(Yesterday.Close, Yesterday.BB_Upper)
                      /\ Lt(Today.Close, Today.BB_Upper)
            bounce == allsig.v.signals["bollinger"] = "Lower Bounce"
        IN  /\ bounce => (below2 /\ below1 /\ above)
            /\ (below2 /\ below1 /\ above /\ ~upper) =>
                  BBSignal(mdf.v.rows, Len(mdf.v.rows)) = 1
            /\ (~below2 /\ below1 /\ above) => ~bounce

\* a bounce is reported after two closes on the lower band
C21_Witness ==
    /\ CheckedAll
    /\ allsig.v.signals["bollinger"] = "Lower Bounce"
    /\ DayBeforeYesterday.Close = DayBeforeYesterday.BB_Lower

Kept == DropNa(ind.v)

\* C23: when the evaluation of the Bollinger rule or of the price-vs-MA rule
\* raises on one date, generate_signals still returns, and apart from that
\* rule's vote on that date (and on the next one, which is compared with
\* it) every vote of every rule on every date is what it is without the
\* failure.
C23_FailureIsLocal ==
    (pc = "generated" /\ ind # None /\ FaultHits(fault, Kept)) =>
        /\ signals # None /\ result # None
        /\ raised = "none"
        /\ Len(signals.v) = Len(Kept)
        /\ \A i \in 1..Len(Kept) : \A c \in signal_columns :
              (c # fault.v.rule \/ i \notin {fault.v.at, fault.v.at + 1}) =>
                  signals.v[i][c] = SignalRow(config, Kept, i)[c]

\* the keys of the result that do not belong to the VIX rules
OtherKeys == DOMAIN NoSignals \ {"vix", "vix_surge"}

\* the frame with the VIX column taken away if it has one, added if not
VixToggled == Some([mdf.v EXCEPT !.vix = ~@])

\* C24: 'vix' and 'vix_surge' appear only when the frame has a VIX column
\* that is defined at the latest date, 'vix_surge' only when in addition the
\* previous VIX is defined and > 0 and the rise exceeds 30%; every other
\* key is the same with and without the VIX column; and 'vix' is High Fear
\* above 30, Moderate Fear above 20 up to 30, Excessive Optimism below 12,
\* and absent from 12 to 20.
C24_VixRuleIsOptional ==
    CheckedAll =>
        LET sig     == allsig.v.signals
            defined == mdf.v.vix /\ ~Today.VIX.nan
            vix     == Today.VIX
        IN  /\ sig["vix"] # Absent => defined
            /\ sig["vix_surge"] # Absent =>
                  /\ defined
                  /\ Gt(Yesterday.VIX, Num(0))
                  /\ Gt(Mul(Sub(vix, Yesterday.VIX), Num(100)),
                        Mul(Num(30), Yesterday.VIX))
            /\ \A k \in OtherKeys :
                  sig[k] = check_all_signals(VixToggled).signals[k]
            /\ defined =>
                  sig["vix"] =
                      IF Cmp(vix, Num(30)) > 0 THEN "High Fear"
                      ELSE IF Cmp(vix, Num(20)) > 0 THEN "Moderate Fear"
                      ELSE IF Cmp(vix, Num(12)) < 0 THEN "Excessive Optimism"
                      ELSE Absent

\* a VIX of exactly 30 after 20: Moderate Fear and a surge
C24_Witness ==
    /\ CheckedAll
    /\ mdf.v.vix
    /\ Yesterday.VIX = Num(20)
    /\ Today.VIX = Num(30)
    /\ allsig.v.signals["vix"] = "Moderate Fear"
    /\ allsig.v.signals["vix_surge"] = "VIX Surge"

\* both checks of one run of the monitor have returned
CheckedBoth == CheckedAll /\ cross # None /\ Len(mdf.v.rows) >= 3

\* C25: on at least 3 bars check_cross_signals reports a golden cross iff
\* Close < 45WMA yesterday and Close > 45WMA today, a death cross iff
\* Close > 45WMA yesterday and Close < 45WMA today, never both, and the
\* '45WMA' entry of check_all_signals on the same data is 'Golden Cross',
\* 'Death Cross' or absent accordingly.
C25_CrossChecksAgree ==
    CheckedBoth =>
        LET golden == cross.v.golden_cross
            death  == cross.v.death_cross
            below(r) == Lt(r.Close, r.WMA45)
            above(r) == Gt(r.Close, r.WMA45)
        IN  /\ golden <=> (below(Yesterday) /\ above(Today))
            /\ death <=> (above(Yesterday) /\ below(Today))
            /\ ~(golden /\ death)
            /\ allsig.v.signals["45WMA"] =
                  IF golden THEN "Golden Cross"
                  ELSE IF death THEN "Death Cross"
                  ELSE Absent

\* a close below the average followed by a close above it: a golden cross
\* in both results
C25_Witness ==
    /\ CheckedBoth
    /\ Lt(Yesterday.Close, Yesterday.WMA45)
    /\ Gt(Today.Close, Today.WMA45)
    /\ cross.v.golden_cross
    /\ allsig.v.signals["45WMA"] = "Golden Cross"

\* C26: in the output of generate_signals every rule column holds -1, 0 or
\* +1, so that Total_Buy_Signals + Total_Sell_Signals <= 5 on every date,
\* and when min_confirm >= 3 no date has both Buy_Signal = 1 and
\* Sell_Signal = 1.
C26_VotesBoundTheFlags ==
    Generated =>
        \A i \in 1..Len(signals.v) :
            LET r == signals.v[i]
            IN  /\ \A c \in signal_columns : r[c] \in {-1, 0, 1}
                /\ r.Total_Buy_Signals + r.Total_Sell_Signals <= 5
                /\ config.min_confirm >= 3 =>
                      ~(r.Buy_Signal = 1 /\ r.Sell_Signal = 1)

\* with min_confirm = 3 a date on which all five rules vote, three of them
\* to buy: a confirmed Buy and no Sell
C26_Witness ==
    /\ Generated
    /\ config.min_confirm = 3
    /\ \E i \in 1..Len(signals.v) :
          /\ signals.v[i].Total_Buy_Signals = 3
          /\ signals.v[i].Total_Sell_Signals = 2
          /\ signals.v[i].Buy_Signal = 1
          /\ signals.v[i].Sell_Signal = 0

\* the histogram of row r is the MACD line minus the signal line
HistIsDifference(r) ==
    IF r.MACD.nan \/ r.MACD_Signal.nan THEN r.MACD_Hist.nan
    ELSE ~r.MACD_Hist.nan /\ Cmp(r.MACD_Hist, Sub(r.MACD, r.MACD_Signal)) = 0

\* C27: when MACD_Hist = MACD - MACD_Signal at the last two dates,
\* check_all_signals returns no 'macd_hist' entry, a change of sign of the
\* histogram being reported as the 'macd' golden or death cross; and 'macd'
\* and 'macd_hist' are never both present.
C27_HistogramEntryIsShadowed ==
    CheckedAll =>
        LET sig == allsig.v.signals
        IN  /\ (HistIsDifference(Yesterday) /\ HistIsDifference(Today)) =>
                  /\ sig["macd_hist"] = Absent
                  /\ (Lt(Yesterday.MACD_Hist, Num(0)) /\ Gt(Today.MACD_Hist, Num(0)))
                        => sig["macd"] = "Golden Cross"
                  /\ (Gt(Yesterday.MACD_Hist, Num(0)) /\ Lt(Today.MACD_Hist, Num(0)))
                        => sig["macd"] = "Death Cross"
            /\ ~(sig["macd"] # Absent /\ sig["macd_hist"] # Absent)

\* the histogram turns from negative to positive: reported under 'macd' only
C27_Witness ==
    /\ CheckedAll
    /\ HistIsDifference(Yesterday) /\ HistIsDifference(Today)
    /\ Lt(Yesterday.MACD_Hist, Num(0))
    /\ Gt(Today.MACD_Hist, Num(0))
    /\ allsig.v.signals["macd"] = "Golden Cross"
    /\ allsig.v.signals["macd_hist"] = Absent

\* C28: analyze_market_status returns None exactly for missing or empty
\* data; for data with rows it returns one trend, one strength and one
\* momentum label whatever is undefined in the latest row, an undefined
\* long average giving Downtrend, an undefined RSI Weak, and an undefined
\* MACD or signal line Bearish.
C28_UndefinedValuesGetLabels ==
    pc = "analyzed" =>
        /\ raised = "none"
        /\ status = None <=> IsEmptyFrame(ind)
        /\ status # None =>
              /\ status.v.trend \in {"Uptrend", "Downtrend"}
              /\ status.v.strength \in {"Overbought", "Oversold", "Strong", "Weak"}
              /\ status.v.momentum \in {"Bullish", "Bearish"}
              /\ LatestRow.MA_long.nan => status.v.trend = "Downtrend"
              /\ LatestRow.RSI_short.nan => status.v.strength = "Weak"
              /\ (LatestRow.MACD.nan \/ LatestRow.MACD_Signal.nan) =>
                    status.v.momentum = "Bearish"

\* the latest signal line is undefined after a row with all values defined
C28_Witness ==
    /\ Analyzed
    /\ Len(ind.v) = 2
    /\ ~HasNaN(ind.v[1])
    /\ ~LatestRow.MACD.nan
    /\ LatestRow.MACD_Signal.nan
    /\ status # None
    /\ status.v.momentum = "Bearish"

\* positions of the log of get_sp500_data
Primaries == {i \in 1..Len(fetch.log) : fetch.log[i].step = "primary"}

Fallbacks == {i \in 1..Len(fetch.log) : fetch.log[i].step = "fallback"}

\* a primary attempt failed: a download raised or the S&P 500 data is empty
FailedAt(i) ==
    LET o == fetch.log[i].got
    IN  o.sp \in {"raises", "empty"} \/ o.vix = "raises"

FetchLogIsLawful ==
    /\ Cardinality(Primaries) <= fetch.max_retries
    /\ Cardinality(Fallbacks) <= 1
    /\ fetch.retries = Cardinality({i \in Primaries : FailedAt(i)})
    /\ \A i \in Primaries :
          ~FailedAt(i) =>
             /\ i = Len(fetch.log)
             /\ pc = "fetched"
             /\ raised = "none"
             /\ fetch.returned =
                   Some([rows |-> "data", vix |-> fetch.log[i].got.vix = "data"])
    /\ \A i \in Fallbacks :
          /\ i = Len(fetch.log)
          /\ pc = "fetched"
          /\ Cardinality(Primaries) = fetch.max_retries
          /\ \A j \in 1..(i - 1) : j \in Primaries /\ FailedAt(j)
    /\ raised = "RuntimeError" <=>
          \E i \in Fallbacks : fetch.log[i].got.sp = "raises"
    /\ (pc = "fetched" /\ raised = "none") => fetch.returned # None
    /\ raised # "none" => fetch.returned = None

\* C29: get_sp500_data terminates; it makes at most max_retries primary
\* attempts, an attempt failing when a download raises or the S&P 500 data
\* is empty, while an empty VIX result alone gives data without a VIX
\* column; the first successful attempt ends the call with its data; the
\* fallback runs at most once and only after max_retries failed attempts;
\* and RuntimeError is raised iff the fallback fails.
C29_FetchTerminates == []FetchLogIsLawful /\ <>(pc = "fetched")

\* two failed attempts, then S&P 500 data with an empty VIX result: the data
\* is returned without a VIX column and the fallback does not run
C29_Witness ==
    /\ pc = "fetched"
    /\ fetch.max_retries = 3
    /\ Len(fetch.log) = 3
    /\ FailedAt(1) /\ FailedAt(2)
    /\ fetch.log[3].got = [sp |-> "data", vix |-> "empty"]
    /\ fetch.returned = Some([rows |-> "data", vix |-> FALSE])
    /\ Fallbacks = {}

\* positions of the calls of one function in the log of main()
CallsOf(op) == {i \in 1..Len(run.log) : run.log[i].op = op}

\* data retrieval raised or returned empty data
RetrievalFailed == run.got \in {"raised", "empty"}

\* check_all_signals returns a non-empty set, or check_cross_signals a
\* golden or a death cross, on the retrieved data
SignalDetected ==
    \/ check_all_signals(mdf).signals # NoSignals
    \/ check_cross_signals(mdf).golden_cross
    \/ check_cross_signals(mdf).death_cross

\* the email main() has sent, "none" if it has sent none
EmailSent ==
    IF CallsOf("send_email_alert") = {} THEN "none"
    ELSE run.log[CHOOSE i \in CallsOf("send_email_alert") : TRUE].kind

\* C30: in one run of main() send_email_alert is called at most once; the
\* email is an error report iff data retrieval raised or returned empty data,
\* and then no signal check and no chart follow; otherwise a signal alert iff
\* a signal or a 45-week cross was detected, whatever the weekday; otherwise
\* a weekly report iff the weekday is Monday; otherwise there is no email
\* and no chart; and a chart is created before the email that attaches it.
C30_OneEmailFixedByOutcome ==
    run.got # "pending" =>
        /\ Cardinality(CallsOf("send_email_alert")) <= 1
        /\ \A i \in CallsOf("send_email_alert") :
              run.log[i].chart =>
                 \E j \in CallsOf("create_chart") :
                    j < i /\ run.log[j].kind = run.log[i].kind
        /\ RetrievalFailed =>
              /\ CallsOf("check_cross_signals") = {}
              /\ CallsOf("check_all_signals") = {}
              /\ CallsOf("create_chart") = {}
        /\ pc = "main_end" =>
              /\ EmailSent =
                    IF RetrievalFailed THEN "error"
                    ELSE IF SignalDetected THEN "alert"
                    ELSE IF run.weekday = 0 THEN "weekly"
                    ELSE "none"
              /\ EmailSent = "none" => CallsOf("create_chart") = {}
              /\ EmailSent \in {"alert", "weekly"} =>
                    /\ Cardinality(CallsOf("create_chart")) = 1
                    /\ \A i \in CallsOf("send_email_alert") : run.log[i].chart

\* a golden cross detected on a Monday: the alert is sent, with its chart,
\* and no weekly report
C30_Witness ==
    /\ pc = "main_end"
    /\ run.weekday = 0
    /\ run.got = "data"
    /\ cross.v.golden_cross
    /\ EmailSent = "alert"
    /\ CallsOf("create_chart") # {}

====
